---- MODULE Spec2Model ----
(***************************************************************************)
(* Model of webpage-save: the result parser (extract_urls_from_results),   *)
(* the filename strategy (generate_filename / sanitize_filename) and the   *)
(* batch orchestrator (search_and_convert_to_pdf) of                       *)
(* src/src/integration.rs, the search client and SearchType of             *)
(* src/src/search.rs, the converters of src/src/pdf.rs and                 *)
(* src/src/markdown.rs with the content and title extraction, and the      *)
(* single-url mode of the command line of src/src/bin/url_to_pdf.rs.       *)
(*                                                                         *)
(* Text is a sequence of one-character strings, so that prefix tests,      *)
(* trimming, replacement and pattern scans are computed as the code        *)
(* computes them.  Each specification runs one part of the program and     *)
(* leaves the variables of the other parts idle.                           *)
(***************************************************************************)
EXTENDS Integers, Sequences, FiniteSets, TLC

\* ------------------------------------------------------------------------
\* Bounds of the model
\* ------------------------------------------------------------------------

\* free-form parser inputs have at most this many lines
MaxLines == 3

\* well-formed parser inputs have at most this many Title/URL/Description triples
MaxTriples == 2

\* provider texts of the batch have at most this many entries
MaxEntries == 2

\* max_results of the batch ranges over 0..MaxResultsBound
MaxResultsBound == 2

\* longest name given to sanitize_filename
MaxNameLen == 3

\* a document has at most this many elements besides html, head and body
MaxItems == 3

\* --wait of the command line ranges over 0..MaxWait
MaxWait == 3

\* longest record title given to generate_filename on its own
MaxTitleLen == 2

\* ------------------------------------------------------------------------
\* String literals of the source
\* ------------------------------------------------------------------------

sEq == <<"=">>

sDash == <<"-">>

sHttp == <<"h","t","t","p",":","/","/">>

sHttps == <<"h","t","t","p","s",":","/","/">>

sURL == <<"U","R","L",":">>

sTitle == <<"T","i","t","l","e",":">>

sDescription == <<"D","e","s","c","r","i","p","t","i","o","n",":">>

sSearchResult == <<"S","e","a","r","c","h"," ","R","e","s","u","l","t"," ">>

sError == <<"E","r","r","o","r",":">>

\* ------------------------------------------------------------------------
\* str operations of the Rust standard library used by the source
\* ------------------------------------------------------------------------

\* char::is_whitespace, restricted to the characters of the model
IsWhitespace(c) == c \in {" ", "\t", "\n", "\r"}

\* str::starts_with
StartsWith(s, p) == Len(s) >= Len(p) /\ SubSeq(s, 1, Len(p)) = p

\* the least element of a non-empty set of integers
Least(S) == CHOOSE p \in S : \A q \in S : p <= q

\* str::trim_start
TrimStart(s) ==
    LET keep == {i \in 1..Len(s) : ~IsWhitespace(s[i])}
    IN  IF keep = {} THEN <<>> ELSE SubSeq(s, Least(keep), Len(s))

\* str::trim_end
TrimEnd(s) ==
    LET keep == {i \in 1..Len(s) : ~IsWhitespace(s[i])}
    IN  IF keep = {} THEN <<>>
        ELSE SubSeq(s, 1, CHOOSE p \in keep : \A q \in keep : q <= p)

\* str::trim
Trim(s) == TrimEnd(TrimStart(s))

\* positions of s where an occurrence of p begins
Occurrences(s, p) ==
    {i \in 1..(Len(s) - Len(p) + 1) : SubSeq(s, i, i + Len(p) - 1) = p}

RECURSIVE Replace(_, _, _)
\* str::replace: every non-overlapping occurrence of from, left to right
Replace(s, from, to) ==
    IF Occurrences(s, from) = {} THEN s
    ELSE LET i == Least(Occurrences(s, from))
         IN  SubSeq(s, 1, i - 1) \o to
             \o Replace(SubSeq(s, i + Len(from), Len(s)), from, to)

\* the k-th piece of s between "\n" characters, without its line ending
SplitNewline(s, k) ==
    LET nl    == {i \in 1..Len(s) : s[i] = "\n"}
        nth(j) == IF j = 0 THEN 0
                  ELSE IF j > Cardinality(nl) THEN Len(s) + 1
                  ELSE CHOOSE p \in nl : Cardinality({q \in nl : q < p}) = j - 1
        piece == SubSeq(s, nth(k - 1) + 1, nth(k) - 1)
    IN  IF k <= Cardinality(nl) /\ piece # <<>> /\ piece[Len(piece)] = "\r"
        THEN SubSeq(piece, 1, Len(piece) - 1)
        ELSE piece

\* str::lines: split at "\n" or "\r\n", the final line ending is optional
Lines(s) ==
    LET n == Cardinality({i \in 1..Len(s) : s[i] = "\n"})
        m == IF s # <<>> /\ s[Len(s)] # "\n" THEN n + 1 ELSE n
    IN  [k \in 1..m |-> SplitNewline(s, k)]

RECURSIVE Digits(_)
\* the decimal digits of n > 0
Digits(n) ==
    IF n = 0 THEN <<>>
    ELSE Digits(n \div 10)
         \o <<CASE n % 10 = 0 -> "0" [] n % 10 = 1 -> "1" [] n % 10 = 2 -> "2"
                [] n % 10 = 3 -> "3" [] n % 10 = 4 -> "4" [] n % 10 = 5 -> "5"
                [] n % 10 = 6 -> "6" [] n % 10 = 7 -> "7" [] n % 10 = 8 -> "8"
                [] OTHER -> "9">>

\* Display of an unsigned integer, as format!("{}", n) prints it
FormatUsize(n) == IF n = 0 THEN <<"0">> ELSE Digits(n)

\* ------------------------------------------------------------------------
\* The result parser: extract_urls_from_results
\* ------------------------------------------------------------------------

\* struct SearchResult
SearchResult(t, u, d) == [title |-> t, url |-> u, description |-> d]

\* the accumulators of the primary pass before the first line
ParserStart ==
    [title |-> <<>>, url |-> <<>>, description |-> <<>>, results |-> <<>>]

\* the if / else-if chain that classifies one trimmed line into a slot
ClassifyLine(st, line) ==
    IF StartsWith(line, sHttp) \/ StartsWith(line, sHttps)
    THEN [st EXCEPT !.url = line]
    ELSE IF StartsWith(line, sURL)
    THEN [st EXCEPT !.url = Trim(Replace(line, sURL, <<>>))]
    ELSE IF StartsWith(line, sTitle)
    THEN [st EXCEPT !.title = Trim(Replace(line, sTitle, <<>>))]
    ELSE IF StartsWith(line, sDescription)
    THEN [st EXCEPT !.description = Trim(Replace(line, sDescription, <<>>))]
    ELSE IF st.url # <<>> /\ st.title = <<>>
    THEN [st EXCEPT !.title = line]
    ELSE IF st.url # <<>> /\ st.title # <<>> /\ st.description = <<>>
    THEN [st EXCEPT !.description = line]
    ELSE st

\* an emission check that asks for the url alone
EmitIfUrl(st) ==
    IF st.url # <<>>
    THEN [title |-> <<>>, url |-> <<>>, description |-> <<>>,
          results |-> Append(st.results,
                             SearchResult(st.title, st.url, st.description))]
    ELSE st

\* an emission that leaves the slots as they are
EmitWithoutReset(st) ==
    IF st.url # <<>> /\ st.title # <<>>
    THEN [st EXCEPT !.results =
             Append(st.results, SearchResult(st.title, st.url, st.description))]
    ELSE st

\* the emission check at the end of the loop body
EmitIfComplete(st) ==
    IF st.url # <<>> /\ st.title # <<>>
    THEN [title |-> <<>>, url |-> <<>>, description |-> <<>>,
          results |-> Append(st.results,
                             SearchResult(st.title, st.url, st.description))]
    ELSE st

\* the separator test: blank line, or a line starting with = or -
IsSkipped(line) ==
    line = <<>> \/ StartsWith(line, sEq) \/ StartsWith(line, sDash)

\* one iteration of the loop over the lines
ProcessLine(st, rawline) ==
    LET line == Trim(rawline)
    IN  IF IsSkipped(line) THEN st ELSE EmitIfComplete(ClassifyLine(st, line))

RECURSIVE PrimaryPass(_, _)
\* the whole loop over the lines
PrimaryPass(st, ls) ==
    IF ls = <<>> THEN st ELSE PrimaryPass(ProcessLine(st, Head(ls)), Tail(ls))

\* [^\s]+ is greedy: the first position at or after p that holds whitespace
RunEnd(s, p) ==
    LET ws == {i \in p..Len(s) : IsWhitespace(s[i])}
    IN  IF ws = {} THEN Len(s) + 1 ELSE Least(ws)

\* end (exclusive) of the match of https?://[^\s]+ starting at p, 0 if none
MatchEnd(s, p) ==
    LET rest == SubSeq(s, p, Len(s))
        pre  == IF StartsWith(rest, sHttps) THEN Len(sHttps)
                ELSE IF StartsWith(rest, sHttp) THEN Len(sHttp) ELSE 0
        q    == p + pre
    IN  IF pre = 0 \/ q > Len(s) \/ IsWhitespace(s[q]) THEN 0 ELSE RunEnd(s, q)

RECURSIVE FindIter(_, _)
\* Regex::find_iter: the leftmost non-overlapping matches from position p on
FindIter(s, p) ==
    LET starts == {i \in p..Len(s) : MatchEnd(s, i) # 0}
    IN  IF starts = {} THEN <<>>
        ELSE LET i == Least(starts)
             IN  <<SubSeq(s, i, MatchEnd(s, i) - 1)>> \o FindIter(s, MatchEnd(s, i))

\* a fallback whose records have no title
FallbackRecordsUntitled(text) ==
    LET ms == FindIter(text, 1)
    IN  [i \in 1..Len(ms) |-> SearchResult(<<>>, ms[i], <<>>)]

\* the regex fallback: one record per match, titled "Search Result {index+1}"
FallbackRecords(text) ==
    LET ms == FindIter(text, 1)
    IN  [i \in 1..Len(ms) |->
            SearchResult(sSearchResult \o FormatUsize((i - 1) + 1), ms[i], <<>>)]

\* a fallback that runs whatever the primary pass found
NeedsFallbackAlways(rs) == TRUE

\* the test that decides whether the fallback runs
NeedsFallback(rs) == rs = <<>>

\* extract_urls_from_results as a function of the raw text
extract_urls_from_results(text) ==
    LET rs == PrimaryPass(ParserStart, Lines(text)).results
    IN  IF NeedsFallback(rs) THEN FallbackRecords(text) ELSE rs

\* ------------------------------------------------------------------------
\* url::Url::parse, as far as the source reads its result
\* ------------------------------------------------------------------------

UpperLetters ==
    <<"A","B","C","D","E","F","G","H","I","J","K","L","M",
      "N","O","P","Q","R","S","T","U","V","W","X","Y","Z">>

LowerLetters ==
    <<"a","b","c","d","e","f","g","h","i","j","k","l","m",
      "n","o","p","q","r","s","t","u","v","w","x","y","z">>

DigitChars == {"0","1","2","3","4","5","6","7","8","9"}

IsAlpha(c) == \E i \in 1..26 : c = UpperLetters[i] \/ c = LowerLetters[i]

\* char::to_ascii_lowercase
ToLowerChar(c) ==
    IF \E i \in 1..26 : c = UpperLetters[i]
    THEN LowerLetters[CHOOSE i \in 1..26 : c = UpperLetters[i]]
    ELSE c

ToLower(s) == [i \in 1..Len(s) |-> ToLowerChar(s[i])]

sSchemeHttp == <<"h","t","t","p">>

sSchemeHttps == <<"h","t","t","p","s">>

sSchemeFile == <<"f","i","l","e">>

\* schemes whose urls always have an authority with a host
HostSchemes ==
    {sSchemeHttp, sSchemeHttps, <<"f","t","p">>, <<"w","s">>, <<"w","s","s">>}

\* index of the first character of s that is in set C, Len(s) + 1 if none
FirstIn(s, C) ==
    IF \E i \in 1..Len(s) : s[i] \in C
    THEN Least({i \in 1..Len(s) : s[i] \in C})
    ELSE Len(s) + 1

RECURSIVE SkipSlashes(_)
\* special schemes accept any run of / and \ before the authority
SkipSlashes(s) ==
    IF s # <<>> /\ Head(s) \in {"/", "\\"} THEN SkipSlashes(Tail(s)) ELSE s

\* code points a host may not contain
ForbiddenHostChars ==
    {" ", "\t", "\n", "\r", "#", "%", "/", ":", "<", ">", "?", "@", "[",
     "\\", "]", "^", "|"}

\* the failure of Url::parse
UrlErr == [ok |-> FALSE, scheme |-> <<>>, has_host |-> FALSE, host |-> <<>>]

\* host and port of an authority without user information
ParseAuthority(scheme, auth) ==
    LET colon == FirstIn(auth, {":"})
        host  == SubSeq(auth, 1, colon - 1)
        port  == SubSeq(auth, colon + 1, Len(auth))
    IN  IF host = <<>> \/ (\E i \in 1..Len(host) : host[i] \in ForbiddenHostChars)
           \/ (\E i \in 1..Len(port) : port[i] \notin DigitChars)
        THEN UrlErr
        ELSE [ok |-> TRUE, scheme |-> scheme, has_host |-> TRUE,
              host |-> ToLower(host)]

\* Url::parse: scheme, then the authority of a hierarchical url
UrlParse(input) ==
    LET s     == Trim(input)
        colon == FirstIn(s, {":"})
        sch   == SubSeq(s, 1, colon - 1)
        rest  == SubSeq(s, colon + 1, Len(s))
    IN  IF colon > Len(s) \/ sch = <<>> \/ ~IsAlpha(sch[1])
           \/ (\E i \in 1..Len(sch) :
                  ~IsAlpha(sch[i]) /\ sch[i] \notin DigitChars \cup {"+", "-", "."})
        THEN UrlErr
        ELSE IF ToLower(sch) \in HostSchemes
        THEN LET r == SkipSlashes(rest)
             IN  ParseAuthority(ToLower(sch),
                                SubSeq(r, 1, FirstIn(r, {"/", "\\", "?", "#"}) - 1))
        ELSE IF StartsWith(rest, <<"/", "/">>)
                /\ FirstIn(SubSeq(rest, 3, Len(rest)), {"/", "?", "#"}) > 1
        THEN LET r == SubSeq(rest, 3, Len(rest))
             IN  ParseAuthority(ToLower(sch),
                                SubSeq(r, 1, FirstIn(r, {"/", "?", "#"}) - 1))
        ELSE [ok |-> TRUE, scheme |-> ToLower(sch), has_host |-> FALSE,
              host |-> <<>>]

\* ------------------------------------------------------------------------
\* The filename strategy: sanitize_filename and generate_filename
\* ------------------------------------------------------------------------

sSearchResultUnderscore == <<"s","e","a","r","c","h","_","r","e","s","u","l","t","_">>

sResultUnderscore == <<"r","e","s","u","l","t","_">>

sUnknown == <<"u","n","k","n","o","w","n">>

sPdf == <<"p","d","f">>

sMd == <<"m","d">>

\* the characters sanitize_filename replaces by name
InvalidFilenameChars == {"/", "\\", ":", "*", "?", "\"", "<", ">", "|"}

\* char::is_control, restricted to the characters of the model
IsControl(c) == c \in {"\t", "\n", "\r"}

\* a map that lets control characters through
SanitizeCharKeepsControl(c) ==
    IF c \in InvalidFilenameChars THEN "_" ELSE c

\* the closure of the map in sanitize_filename
SanitizeChar(c) ==
    IF c \in InvalidFilenameChars THEN "_"
    ELSE IF IsControl(c) THEN "_"
    ELSE c

\* a sanitize_filename that trims and replaces nothing
sanitize_filename_trim_only(filename) == Trim(filename)

\* sanitize_filename
sanitize_filename(filename) ==
    Trim([i \in 1..Len(filename) |-> SanitizeChar(filename[i])])

\* a domain part that is left empty when the url has no host
HostOrEmpty(u) == IF u.has_host THEN u.host ELSE <<>>

\* url.host_str().unwrap_or("unknown")
HostOrUnknown(u) == IF u.has_host THEN u.host ELSE sUnknown

\* the base name under the Title strategy
TitleName(result, idx) ==
    IF result.title = <<>>
    THEN sSearchResultUnderscore \o FormatUsize(idx + 1)
    ELSE sanitize_filename(result.title)

\* a Sequential name numbered from zero
SequentialNameFromZero(result, idx) == sSearchResultUnderscore \o FormatUsize(idx)

\* the base name under the Sequential strategy
SequentialName(result, idx) == sSearchResultUnderscore \o FormatUsize(idx + 1)

\* the base name under the Domain strategy, once the url has parsed
DomainName(result, idx) == sanitize_filename(HostOrUnknown(UrlParse(result.url)))

\* the base name under the TitleDomain strategy, once the url has parsed
TitleDomainName(result, idx) ==
    (IF result.title = <<>>
     THEN sResultUnderscore \o FormatUsize(idx + 1)
     ELSE sanitize_filename(result.title))
    \o <<"_">> \o sanitize_filename(HostOrUnknown(UrlParse(result.url)))

\* generate_filename: Ok(name) or the error of Url::parse
generate_filename(result, idx, strategy, extension) ==
    LET base ==
            CASE strategy = "Title" ->
                    [ok |-> TRUE, name |-> TitleName(result, idx)]
              [] strategy = "Domain" ->
                    IF UrlParse(result.url).ok
                    THEN [ok |-> TRUE, name |-> DomainName(result, idx)]
                    ELSE [ok |-> FALSE, name |-> <<>>]
              [] strategy = "Sequential" ->
                    [ok |-> TRUE, name |-> SequentialName(result, idx)]
              [] strategy = "TitleDomain" ->
                    IF UrlParse(result.url).ok
                    THEN [ok |-> TRUE, name |-> TitleDomainName(result, idx)]
                    ELSE [ok |-> FALSE, name |-> <<>>]
    IN  IF base.ok
        THEN [ok |-> TRUE, name |-> base.name \o <<".">> \o extension]
        ELSE base

\* PathBuf::join: an absolute argument replaces the path
PathJoin(dir, name) ==
    IF StartsWith(name, <<"/">>) THEN name
    ELSE IF dir = <<>> \/ dir[Len(dir)] = "/" THEN dir \o name
    ELSE dir \o <<"/">> \o name

\* ------------------------------------------------------------------------
\* The converters and the search client
\* ------------------------------------------------------------------------

\* the validation at the head of PdfGenerator::url_to_pdf
PdfUrlAccepted(url) ==
    UrlParse(url).ok
    /\ UrlParse(url).scheme \in {sSchemeHttp, sSchemeHttps, sSchemeFile}

\* a validation that lets file urls through as url_to_pdf does
MarkdownUrlAcceptedAsPdf(url) == PdfUrlAccepted(url)

\* the validation at the head of MarkdownGenerator::url_to_markdown
MarkdownUrlAccepted(url) ==
    UrlParse(url).ok /\ UrlParse(url).scheme \in {sSchemeHttp, sSchemeHttps}

\* what a conversion call can end as when the url is validated or not:
\* the browser or the request fails, the write fails, or the file is written
ConversionOutcomes(accepted) ==
    IF accepted THEN {"fetch_err", "write_err", "ok"} ELSE {"invalid_url"}

\* an Err test that compares the whole text instead of its prefix
IsProviderErrorExact(result) == result = sError

\* the Err test of web_search, news_search and local_search
IsProviderError(result) == StartsWith(result, sError)

\* BraveSearchClient::search: dispatch on the type, each arm the same test
SearchOutcome(search_type, result) ==
    CASE search_type = "Web" ->
            IF IsProviderError(result) THEN [ok |-> FALSE, text |-> <<>>]
            ELSE [ok |-> TRUE, text |-> result]
      [] search_type = "News" ->
            IF IsProviderError(result) THEN [ok |-> FALSE, text |-> <<>>]
            ELSE [ok |-> TRUE, text |-> result]
      [] search_type = "Local" ->
            IF IsProviderError(result) THEN [ok |-> FALSE, text |-> <<>>]
            ELSE [ok |-> TRUE, text |-> result]

\* a truncation that keeps every record
TakeAll(xs, n) == xs

\* Iterator::take(n) on a vector
Take(xs, n) == SubSeq(xs, 1, IF n < Len(xs) THEN n ELSE Len(xs))

\* ------------------------------------------------------------------------
\* The parsed document (select::document::Document) and the extraction of
\* src/src/markdown.rs.  A document is the sequence of its elements in
\* document order; an element is a record with its tag, its depth in the
\* tree, its attributes (an Option each) and the text directly inside it.
\* ------------------------------------------------------------------------

\* Option::None
None == <<>>

\* Option::Some
Some(x) == <<x>>

\* the last position of the element at i: its descendants follow it
ElementEnd(document, i) ==
    LET beyond == {j \in (i + 1)..Len(document) :
                      document[j].depth <= document[i].depth}
    IN  IF beyond = {} THEN Len(document) ELSE Least(beyond) - 1

\* Node::html: the element at i with all its descendants
ElementHtml(document, i) == SubSeq(document, i, ElementEnd(document, i))

RECURSIVE ConcatText(_)
\* the texts of the elements, one after the other
ConcatText(nodes) ==
    IF nodes = <<>> THEN <<>> ELSE Head(nodes).text \o ConcatText(Tail(nodes))

\* Node::text: the text of the element at i and of its descendants
ElementText(document, i) == ConcatText(ElementHtml(document, i))

\* the predicates Name(value), for the attribute "tag", and
\* Attr(attribute, value), which compares the whole attribute value
Matches(node, attribute, value) ==
    IF attribute = "tag" THEN node.tag = value ELSE node[attribute] = Some(value)

\* document.find(predicate).next(): the position of the first element in
\* document order that satisfies the predicate, 0 when there is none
FindNext(document, attribute, value) ==
    LET found == {i \in 1..Len(document) : Matches(document[i], attribute, value)}
    IN  IF found = {} THEN 0 ELSE Least(found)

\* a for loop over selectors that returns at the first selector with an
\* element: the position of that element, 0 when no selector has one
FirstSelected(document, selectors, attribute) ==
    LET hits == {k \in 1..Len(selectors) :
                    FindNext(document, attribute, selectors[k]) # 0}
    IN  IF hits = {} THEN 0
        ELSE FindNext(document, attribute, selectors[Least(hits)])

\* a tag order that prefers article to main
ContentTagSelectorsArticleFirst == <<"article", "main", "body">>

\* tag_selectors of extract_main_content
ContentTagSelectors == <<"main", "article", "body">>

\* class_selectors of extract_main_content
ContentClassSelectors ==
    <<"main-content", "content", "post-content", "entry-content", "article-content">>

\* id_selectors of extract_main_content
ContentIdSelectors == <<"content">>

\* extract_main_content; html_content is given parsed
extract_main_content(html_content) ==
    LET document == html_content
        by_tag   == FirstSelected(document, ContentTagSelectors, "tag")
        by_class == FirstSelected(document, ContentClassSelectors, "class")
        by_id    == FirstSelected(document, ContentIdSelectors, "id")
        body     == FindNext(document, "tag", "body")
    IN  IF by_tag # 0 THEN ElementHtml(document, by_tag)
        ELSE IF by_class # 0 THEN ElementHtml(document, by_class)
        ELSE IF by_id # 0 THEN ElementHtml(document, by_id)
        ELSE IF body # 0 THEN ElementHtml(document, body)
        ELSE html_content

\* element.text().trim() of the element at i
TrimmedText(document, i) == Trim(ElementText(document, i))

\* a for loop over selectors that returns the trimmed text of the first
\* element of a selector when it is not empty, and goes on otherwise
FirstText(document, selectors, attribute) ==
    LET hits == {k \in 1..Len(selectors) :
                    LET i == FindNext(document, attribute, selectors[k])
                    IN  i # 0 /\ TrimmedText(document, i) # <<>>}
    IN  IF hits = {} THEN None
        ELSE Some(TrimmedText(document,
                              FindNext(document, attribute, selectors[Least(hits)])))

\* a tag order that prefers title to h1
TitleTagSelectorsTitleFirst == <<"title", "h1">>

\* tag_selectors of extract_title
TitleTagSelectors == <<"h1", "title">>

\* class_selectors of extract_title
TitleClassSelectors == <<"title", "post-title", "entry-title", "article-title">>

\* the content attribute of the first element with the meta attribute, if
\* there is such an element and it has the attribute
MetaContent(document, attribute, value) ==
    LET i == FindNext(document, attribute, value)
    IN  IF i = 0 THEN None ELSE document[i].content

\* extract_title; html_content is given parsed
extract_title(html_content) ==
    LET document == html_content
        by_tag   == FirstText(document, TitleTagSelectors, "tag")
        og       == MetaContent(document, "property", "og:title")
        twitter  == MetaContent(document, "name", "twitter:title")
        by_class == FirstText(document, TitleClassSelectors, "class")
    IN  IF by_tag # None THEN by_tag
        ELSE IF og # None THEN og
        ELSE IF twitter # None THEN twitter
        ELSE by_class

\* ------------------------------------------------------------------------
\* The command line of src/src/bin/url_to_pdf.rs, single-url mode
\* ------------------------------------------------------------------------

\* the milliseconds url_to_pdf sleeps between page load and print_to_pdf
SleepMillis == 2000

\* default_value of --wait, in seconds
DefaultWait == 2

\* the greatest element of a non-empty set of numbers
Greatest(S) == CHOOSE x \in S : \A y \in S : y <= x

\* Path::with_extension: the extension of the file name, when it has one,
\* is replaced; a dot that begins the file name starts no extension
WithExtension(path, extension) ==
    LET slashes == {i \in 1..Len(path) : path[i] = "/"}
        start   == IF slashes = {} THEN 1 ELSE Greatest(slashes) + 1
        dots    == {i \in (start + 1)..Len(path) : path[i] = "."}
        stem    == IF dots = {} THEN path ELSE SubSeq(path, 1, Greatest(dots) - 1)
    IN  IF start > Len(path) THEN path
        ELSE IF extension = <<>> THEN stem
        ELSE stem \o <<".">> \o extension

\* format!("{}.{}", host, extension) of the parsed url
HostFilename(url, extension) ==
    HostOrUnknown(UrlParse(url)) \o <<".">> \o extension

\* a call of a converter: which one, and the path it writes
Call(op, path) == [op |-> op, path |-> path]

\* the converter calls main makes for a format, in order, with their paths
CliCalls(format, output, url) ==
    LET provided == output # None
        primary  == IF format = "Markdown" THEN sMd ELSE sPdf
        output_path == IF provided THEN output[1] ELSE HostFilename(url, primary)
        pdf_path == IF provided THEN output_path ELSE HostFilename(url, sPdf)
        md_path  == IF provided THEN WithExtension(output_path, sMd)
                    ELSE HostFilename(url, sMd)
    IN  CASE format = "Pdf" -> <<Call("pdf", output_path)>>
          [] format = "Markdown" -> <<Call("md", output_path)>>
          [] format = "Both" -> <<Call("pdf", pdf_path), Call("md", md_path)>>

\* something a converter did outside the process: a tab opened on a url, a
\* request sent to a url, a sleep of some milliseconds, a file written
Effect(kind, op, target, millis) ==
    [kind |-> kind, op |-> op, target |-> target, millis |-> millis]

\* ------------------------------------------------------------------------
\* SearchType of src/src/search.rs: Display and FromStr
\* ------------------------------------------------------------------------

sWeb == <<"w","e","b">>

sNews == <<"n","e","w","s">>

sLocal == <<"l","o","c","a","l">>

\* Result::Ok
Ok(value) == [ok |-> TRUE, value |-> value]

\* Result::Err of from_str; the message is left out
Err == [ok |-> FALSE, value |-> "none"]

\* impl Display for SearchType
fmt(search_type) ==
    CASE search_type = "Web" -> sWeb
      [] search_type = "News" -> sNews
      [] search_type = "Local" -> sLocal

\* a parse that compares the string as it is written
from_str_exact(s) ==
    CASE s = sWeb -> Ok("Web")
      [] s = sNews -> Ok("News")
      [] s = sLocal -> Ok("Local")
      [] OTHER -> Err

\* impl FromStr for SearchType
from_str(s) ==
    LET lowered == ToLower(s)
    IN  CASE lowered = sWeb -> Ok("Web")
          [] lowered = sNews -> Ok("News")
          [] lowered = sLocal -> Ok("Local")
          [] OTHER -> Err

\* ------------------------------------------------------------------------
\* Inputs of the model
\* ------------------------------------------------------------------------

urlAB1 == <<"h","t","t","p","s",":","/","/","a",".","b","/","c">>

urlAB2 == <<"h","t","t","p","s",":","/","/","a",".","b","/","d">>

urlDE == <<"h","t","t","p","s",":","/","/","d",".","e","/","f">>

\* title values of well-formed triples; the last one is the text "Title:"
TitleValues == {<<"A">>, <<"B">>, sTitle}

\* url values of well-formed triples
UrlValues == {urlAB1, urlDE}

\* description values of well-formed triples
DescriptionValues == {<<>>, <<"D">>}

\* the values of one Title:/URL:/Description: triple
TripleValues ==
    [title : TitleValues, url : UrlValues, description : DescriptionValues]

\* the three lines of a triple, as the provider prints them
RenderTriple(t) ==
    sTitle \o <<" ">> \o t.title \o <<"\n">>
    \o sURL \o <<" ">> \o t.url \o <<"\n">>
    \o sDescription \o <<" ">> \o t.description \o <<"\n">>

RECURSIVE RenderTriples(_)
\* a text made of repeated triples
RenderTriples(ts) ==
    IF ts = <<>> THEN <<>> ELSE RenderTriple(Head(ts)) \o RenderTriples(Tail(ts))

\* lines of free-form provider text
FreeLines ==
    { <<>>,
      <<"-","-","-">>,
      <<"A">>,
      sTitle \o <<" ","A">>,
      sURL \o <<" ">> \o urlAB1,
      sDescription \o <<" ","D">>,
      urlDE,
      sHttp,
      <<"s","e","e"," ">> \o urlAB1 \o <<" ">> \o urlDE,
      <<"(">> \o urlAB1 \o <<")">>,
      <<"-","A">> }

RECURSIVE JoinLines(_)
\* the lines, each ended by a newline
JoinLines(ls) ==
    IF ls = <<>> THEN <<>> ELSE Head(ls) \o <<"\n">> \o JoinLines(Tail(ls))

\* sequences over S of length at most n
SeqUpTo(S, n) == UNION {[1..k -> S] : k \in 0..n}

\* the characters of the names given to sanitize_filename; the last one
\* stands for the characters outside ASCII
NameChars == InvalidFilenameChars \cup {"\t", " ", "a", "é"}

\* an element without attributes, at the root
Element(tag, text) ==
    [tag |-> tag, depth |-> 0, class |-> None, id |-> None, property |-> None,
     name |-> None, content |-> None, text |-> text]

\* a meta element of the head
Meta(property, name, content) ==
    [Element("meta", <<>>) EXCEPT
        !.property = property, !.name = name, !.content = content]

\* a div of the body with a class or an id
Div(class, id, text) == [Element("div", text) EXCEPT !.class = class, !.id = id]

\* a frame of a frameset with a class or an id
Frame(class, id) == [Element("frame", <<>>) EXCEPT !.class = class, !.id = id]

\* the elements a head is made of
HeadMenu ==
    { Element("title", <<" ","P"," ">>),
      Element("title", <<" ">>),
      Meta(Some("og:title"), None, Some(<<"O">>)),
      Meta(Some("og:title"), None, Some(<<>>)),
      Meta(Some("og:title"), None, None),
      Meta(None, Some("twitter:title"), Some(<<"W">>)) }

\* the elements a body is made of
BodyMenu ==
    { Element("header", <<"H">>),
      Element("main", <<"M">>),
      Element("article", <<"R">>),
      Element("h1", <<" ","T"," ">>),
      Element("h1", <<" ">>),
      Div(Some("content"), None, <<"C">>),
      Div(Some("title"), None, <<" ","X">>),
      Div(None, Some("content"), <<"I">>) }

\* the elements a frameset is made of
FrameMenu ==
    { Frame(Some("content"), None),
      Frame(Some("content wide"), None),
      Frame(Some("main-content"), None),
      Frame(None, Some("content")) }

\* the elements placed at a depth, as siblings or each inside the one before
Placed(elements, depth, nested) ==
    [i \in 1..Len(elements) |->
        [elements[i] EXCEPT !.depth = IF nested THEN depth + i - 1 ELSE depth]]

\* what the parser builds for a page with a body: html, head and body are
\* always there
BodyDocument(head, body, nested) ==
    Placed(<<Element("html", <<>>), Element("head", <<>>)>>, 0, TRUE)
    \o Placed(head, 2, FALSE)
    \o Placed(<<Element("body", <<>>)>>, 1, FALSE)
    \o Placed(body, 2, nested)

\* what the parser builds for a frameset page: there is no body
FramesetDocument(head, frames) ==
    Placed(<<Element("html", <<>>), Element("head", <<>>)>>, 0, TRUE)
    \o Placed(head, 2, FALSE)
    \o Placed(<<Element("frameset", <<>>)>>, 1, FALSE)
    \o Placed(frames, 2, FALSE)

\* a url without a scheme, which Url::parse rejects
urlNoScheme == <<"a",".","b","/","c">>

\* a url that parses and has no host
urlFile == <<"f","i","l","e",":","/","/","/","f">>

urlHttp == <<"h","t","t","p",":","/","/","a",".","b","/","c">>

\* a url whose scheme is written in capitals
urlUpper == <<"H","T","T","P","S",":","/","/","a",".","b","/","c">>

urlFtp == <<"f","t","p",":","/","/","a",".","b","/","c">>

urlMailto == <<"m","a","i","l","t","o",":","m">>

\* the urls given on the command line
CliUrls == {urlAB1, urlHttp, urlUpper, urlFile, urlFtp, urlMailto, urlNoScheme}

\* the values of --output
CliOutputs == {None, Some(<<"o",".","p","d","f">>), Some(<<"o",".","m","d">>)}

\* the values of --wait
CliWaits == {DefaultWait} \cup (0..MaxWait)

\* the capital of a small letter of the search type names
Capital(c) ==
    CASE c = "w" -> "W" [] c = "e" -> "E" [] c = "b" -> "B" [] c = "n" -> "N"
      [] c = "s" -> "S" [] c = "l" -> "L" [] c = "o" -> "O" [] c = "c" -> "C"
      [] c = "a" -> "A"

\* the word with any of its letters written as capitals
CaseVariants(word) ==
    {[i \in 1..Len(word) |-> IF i \in capitals THEN Capital(word[i]) ELSE word[i]] :
        capitals \in SUBSET (1..Len(word))}

\* strings that are no search type name in any case
OtherNames ==
    { <<>>, <<"w","e">>, <<"w","e","b","s">>, <<" ","w","e","b">>,
      <<"W","E","B"," ">>, <<"n","e","w">>, <<"l","o","c","a","l","e">>,
      <<"i","m","a","g","e">> }

\* the strings given to from_str
SearchTypeNames ==
    CaseVariants(sWeb) \cup CaseVariants(sNews) \cup CaseVariants(sLocal)
    \cup OtherNames

\* the entries a provider text of the batch is made of
Entries ==
    { [title |-> <<"A">>, url |-> urlAB1, description |-> <<>>],
      [title |-> <<"A">>, url |-> urlAB2, description |-> <<>>],
      [title |-> <<"B">>, url |-> urlDE, description |-> <<"D">>],
      [title |-> <<"B">>, url |-> urlNoScheme, description |-> <<>>],
      [title |-> <<"A">>, url |-> urlFile, description |-> <<>>] }

\* a provider answer that reports an error
ErrorText == sError \o <<" ","x">>

\* a provider answer without structure, with two urls in it
UnstructuredText == <<"s","e","e"," ">> \o urlAB1 \o <<" ">> \o urlDE \o <<"\n">>

\* the provider answers of the batch
ProviderTexts ==
    {ErrorText, UnstructuredText}
    \cup {RenderTriples(es) : es \in SeqUpTo(Entries, MaxEntries)}

SearchTypes == {"Web", "News", "Local"}

NamingStrategies == {"Title", "Domain", "Sequential", "TitleDomain"}

OutputFormats == {"Pdf", "Markdown", "Both"}

\* pdf_config.output_dir
OutputDir == <<".","/","o","u","t">>

\* an entry of the trace: the call, the 0-based record index, the outcome
Event(op, idx, out) == [op |-> op, idx |-> idx, out |-> out]

\* a page load started by a converter: the call, the record index, the url
Request(op, idx, url) == [op |-> op, idx |-> idx, url |-> url]

\* the value of the function: Err(error) or Ok(value)
Returned(kind, error, value) == [kind |-> kind, error |-> error, value |-> value]

\* ------------------------------------------------------------------------
\* State
\* ------------------------------------------------------------------------

VARIABLES
    \* extract_urls_from_results, line by line
    ppc,                  \* position in extract_urls_from_results
    input_kind,           \* "triples" or "free": how raw was made
    triples,              \* the triples raw was rendered from
    raw,                  \* the search_results argument
    lines,                \* the lines not yet processed
    current_title,
    current_url,
    current_description,
    results,
    primary_count,        \* number of records when the loop ended
    fallback_ran,         \* the regex branch was entered
    \* search_and_convert_to_pdf
    pc,                   \* position in search_and_convert_to_pdf
    provider_text,        \* what the provider answers to the query
    max_results,          \* pdf_config.max_results
    naming_strategy,      \* pdf_config.naming_strategy
    output_format,        \* pdf_config.output_format
    search_results,
    urls,                 \* the records the parser returned
    urls_to_process,
    dir_created,          \* create_dir_all has succeeded
    index,                \* the loop index, 0-based
    file_paths,           \* convert_url's local list
    converted_files,
    files,                \* paths written in the output directory
    trace,                \* the calls made so far, in order
    requests,             \* the page loads started so far, in order
    ret,                  \* the value returned
    \* sanitize_filename, called on its own result
    fpc,                  \* position in the two calls
    filename,             \* the argument of the first call
    sanitized,            \* the value of the first call
    resanitized,          \* the value of the call on that value
    \* html_to_markdown with a base url
    hpc,                  \* position in html_to_markdown
    html_content,         \* the page, parsed
    main_content,         \* the value of extract_main_content
    doc_title,            \* the value of extract_title
    \* main of the command line, single-url mode
    cpc,                  \* position in main
    cli_url,              \* cli.url
    cli_output,           \* cli.output
    cli_format,           \* cli.format
    cli_wait,             \* cli.wait
    pending,              \* the converter calls main has still to make
    exit_code,            \* the exit status of the process, -1 while it runs
    \* the converter call in progress: url_to_pdf or url_to_markdown
    cv_pc,                \* position in the converter
    cv_op,                \* "pdf" for url_to_pdf, "md" for url_to_markdown
    cv_url,               \* its url argument
    cv_path,              \* its output_path argument
    cv_ret,               \* "ok" or "err" once it has returned
    effects,              \* what the converters did outside the process
    \* a search type name parsed, displayed and parsed again
    tpc,                  \* position in the three calls
    type_name,            \* the argument of from_str
    parsed_type,          \* the value of from_str
    shown,                \* the value displayed
    reparsed_type,        \* the value of from_str on the displayed value
    \* generate_filename and the join with the output directory
    npc,                  \* position in the two calls
    name_result,          \* the result argument
    name_index,           \* the index argument
    name_strategy,        \* config.naming_strategy
    name_extension,       \* the extension argument
    name_filename,        \* the value of generate_filename
    name_path             \* config.output_dir.join(filename)

pvars == <<ppc, input_kind, triples, raw, lines, current_title, current_url,
           current_description, results, primary_count, fallback_ran>>

bvars == <<pc, provider_text, max_results, naming_strategy, output_format,
           search_results, urls, urls_to_process, dir_created, index, file_paths,
           converted_files, files, trace, requests, ret>>

fvars == <<fpc, filename, sanitized, resanitized>>

hvars == <<hpc, html_content, main_content, doc_title>>

cvars == <<cpc, cli_url, cli_output, cli_format, cli_wait, pending, exit_code,
           cv_pc, cv_op, cv_url, cv_path, cv_ret, effects>>

tvars == <<tpc, type_name, parsed_type, shown, reparsed_type>>

nvars == <<npc, name_result, name_index, name_strategy, name_extension,
           name_filename, name_path>>

\* the variables of the calls outside the batch and its parser
ovars == <<fvars, hvars, cvars, tvars, nvars>>

vars == <<pvars, bvars, ovars>>

\* the parser is not running
ParserIdle ==
    /\ ppc = "idle"
    /\ input_kind = "none"
    /\ triples = <<>>
    /\ raw = <<>>
    /\ lines = <<>>
    /\ current_title = <<>>
    /\ current_url = <<>>
    /\ current_description = <<>>
    /\ results = <<>>
    /\ primary_count = 0
    /\ fallback_ran = FALSE

\* the batch is not running
BatchIdle ==
    /\ pc = "idle"
    /\ provider_text = <<>>
    /\ max_results = 0
    /\ naming_strategy = "Sequential"
    /\ output_format = "Pdf"
    /\ search_results = <<>>
    /\ urls = <<>>
    /\ urls_to_process = <<>>
    /\ dir_created = FALSE
    /\ index = 0
    /\ file_paths = <<>>
    /\ converted_files = <<>>
    /\ files = {}
    /\ trace = <<>>
    /\ requests = <<>>
    /\ ret = Returned("none", "", <<>>)

\* sanitize_filename is not running
FilenameIdle ==
    /\ fpc = "idle"
    /\ filename = <<>>
    /\ sanitized = <<>>
    /\ resanitized = <<>>

\* html_to_markdown is not running
HtmlIdle ==
    /\ hpc = "idle"
    /\ html_content = <<>>
    /\ main_content = <<>>
    /\ doc_title = None

\* no converter call is in progress
ConverterIdle ==
    /\ cv_pc = "idle"
    /\ cv_op = "none"
    /\ cv_url = <<>>
    /\ cv_path = None
    /\ cv_ret = "none"

\* the command line is not running
CliIdle ==
    /\ cpc = "idle"
    /\ cli_url = <<>>
    /\ cli_output = None
    /\ cli_format = "Pdf"
    /\ cli_wait = DefaultWait
    /\ pending = <<>>
    /\ exit_code = -1
    /\ ConverterIdle
    /\ effects = <<>>

\* no search type name is being parsed
SearchTypeIdle ==
    /\ tpc = "idle"
    /\ type_name = <<>>
    /\ parsed_type = Err
    /\ shown = <<>>
    /\ reparsed_type = Err

\* generate_filename is not being called on its own
NameIdle ==
    /\ npc = "idle"
    /\ name_result = SearchResult(<<>>, <<>>, <<>>)
    /\ name_index = 0
    /\ name_strategy = "Title"
    /\ name_extension = <<>>
    /\ name_filename = [ok |-> FALSE, name |-> <<>>]
    /\ name_path = <<>>

\* nothing outside the batch and its parser is running
OthersIdle ==
    /\ FilenameIdle
    /\ HtmlIdle
    /\ CliIdle
    /\ SearchTypeIdle
    /\ NameIdle

\* ------------------------------------------------------------------------
\* extract_urls_from_results, one loop iteration per step
\* ------------------------------------------------------------------------

\* a call of extract_urls_from_results on a bounded text
ParserInit ==
    /\ BatchIdle
    /\ OthersIdle
    /\ ppc = "start"
    /\ \/ /\ input_kind = "triples"
          /\ triples \in SeqUpTo(TripleValues, MaxTriples)
          /\ raw = RenderTriples(triples)
       \/ /\ input_kind = "free"
          /\ triples = <<>>
          /\ raw \in {JoinLines(ls) : ls \in SeqUpTo(FreeLines, MaxLines)}
    /\ lines = <<>>
    /\ current_title = <<>>
    /\ current_url = <<>>
    /\ current_description = <<>>
    /\ results = <<>>
    /\ primary_count = 0
    /\ fallback_ran = FALSE

\* the declarations before the loop
BeginParse ==
    /\ ppc = "start"
    /\ ppc' = "loop"
    /\ lines' = Lines(raw)
    /\ results' = ParserStart.results
    /\ current_title' = ParserStart.title
    /\ current_url' = ParserStart.url
    /\ current_description' = ParserStart.description
    /\ UNCHANGED <<input_kind, triples, raw, primary_count, fallback_ran>>
    /\ UNCHANGED <<bvars, ovars>>

\* the loop body on the next line
ParseLine ==
    /\ ppc = "loop"
    /\ lines # <<>>
    /\ LET st == ProcessLine([title |-> current_title, url |-> current_url,
                              description |-> current_description,
                              results |-> results], Head(lines))
       IN  /\ current_title' = st.title
           /\ current_url' = st.url
           /\ current_description' = st.description
           /\ results' = st.results
    /\ lines' = Tail(lines)
    /\ UNCHANGED <<ppc, input_kind, triples, raw, primary_count, fallback_ran>>
    /\ UNCHANGED <<bvars, ovars>>

\* after the loop: the regex fallback when nothing was found, and the return
FinishParse ==
    /\ ppc = "loop"
    /\ lines = <<>>
    /\ ppc' = "done"
    /\ primary_count' = Len(results)
    /\ fallback_ran' = NeedsFallback(results)
    /\ results' = IF NeedsFallback(results) THEN FallbackRecords(raw) ELSE results
    /\ UNCHANGED <<input_kind, triples, raw, lines, current_title, current_url,
                   current_description>>
    /\ UNCHANGED <<bvars, ovars>>

ParserNext == BeginParse \/ ParseLine \/ FinishParse

ParserSpec == ParserInit /\ [][ParserNext]_vars

\* ------------------------------------------------------------------------
\* search_and_convert_to_pdf, one step per call it awaits
\* ------------------------------------------------------------------------

\* a call of search_and_convert_to_pdf with a bounded provider and configuration
BatchInit ==
    /\ ParserIdle
    /\ OthersIdle
    /\ pc = "search"
    /\ provider_text \in ProviderTexts
    /\ max_results \in 0..MaxResultsBound
    /\ naming_strategy \in NamingStrategies
    /\ output_format \in OutputFormats
    /\ search_results = <<>>
    /\ urls = <<>>
    /\ urls_to_process = <<>>
    /\ dir_created = FALSE
    /\ index = 0
    /\ file_paths = <<>>
    /\ converted_files = <<>>
    /\ files = {}
    /\ trace = <<>>
    /\ requests = <<>>
    /\ ret = Returned("none", "", <<>>)

\* self.search_client.search(...).await?
Search ==
    /\ pc = "search"
    /\ \E search_type \in SearchTypes :
          LET r == SearchOutcome(search_type, provider_text)
          IN  IF r.ok
              THEN /\ search_results' = r.text
                   /\ trace' = Append(trace, Event("search", 0, "ok"))
                   /\ pc' = "extract"
                   /\ ret' = ret
              ELSE /\ search_results' = search_results
                   /\ trace' = Append(trace, Event("search", 0, "err"))
                   /\ pc' = "returned"
                   /\ ret' = Returned("err", "search", <<>>)
    /\ UNCHANGED <<requests, provider_text, max_results, naming_strategy,
                   output_format,
                   urls, urls_to_process, dir_created, index, file_paths,
                   converted_files, files>>
    /\ UNCHANGED <<pvars, ovars>>

\* extract_urls_from_results(...)? and the truncation to max_results
ExtractAndTruncate ==
    /\ pc = "extract"
    /\ urls' = extract_urls_from_results(search_results)
    /\ urls_to_process' = Take(urls', max_results)
    /\ trace' = Append(trace, Event("extract", 0, "ok"))
    /\ pc' = "create_dir"
    /\ UNCHANGED <<requests, provider_text, max_results, naming_strategy,
                   output_format,
                   search_results, dir_created, index, file_paths,
                   converted_files, files, ret>>
    /\ UNCHANGED <<pvars, ovars>>

\* a directory creation whose failure is dropped instead of propagated
CreateDirIgnoringFailure ==
    /\ pc = "create_dir"
    /\ \E ok \in BOOLEAN :
          /\ dir_created' = (dir_created \/ ok)
          /\ trace' = Append(trace, Event("create_dir", 0, IF ok THEN "ok" ELSE "err"))
          /\ pc' = "loop"
          /\ ret' = ret
    /\ UNCHANGED <<requests, provider_text, max_results, naming_strategy,
                   output_format,
                   search_results, urls, urls_to_process, index, file_paths,
                   converted_files, files>>
    /\ UNCHANGED <<pvars, ovars>>

\* fs::create_dir_all(&pdf_config.output_dir).await?
CreateDir ==
    /\ pc = "create_dir"
    /\ \E ok \in BOOLEAN :
          IF ok
          THEN /\ dir_created' = TRUE
               /\ trace' = Append(trace, Event("create_dir", 0, "ok"))
               /\ pc' = "loop"
               /\ ret' = ret
          ELSE /\ dir_created' = dir_created
               /\ trace' = Append(trace, Event("create_dir", 0, "err"))
               /\ pc' = "returned"
               /\ ret' = Returned("err", "create_dir", <<>>)
    /\ UNCHANGED <<requests, provider_text, max_results, naming_strategy,
                   output_format,
                   search_results, urls, urls_to_process, index, file_paths,
                   converted_files, files>>
    /\ UNCHANGED <<pvars, ovars>>

\* the first conversion convert_url makes for a format
FirstConversion(format) == IF format = "Markdown" THEN "md" ELSE "pdf"

\* the index the loop goes on with after the record at idx
NextIndex(idx) == idx + 1

\* the head of the for loop, and the entry of convert_url for the next record
LoopHead ==
    /\ pc = "loop"
    /\ IF index < Len(urls_to_process)
       THEN pc' = FirstConversion(output_format)
       ELSE pc' = "finish"
    /\ file_paths' = <<>>
    /\ UNCHANGED <<requests, provider_text, max_results, naming_strategy,
                   output_format,
                   search_results, urls, urls_to_process, dir_created, index,
                   converted_files, files, trace, ret>>
    /\ UNCHANGED <<pvars, ovars>>

\* an Err arm that propagates the error out of the loop
RecordFailedAborts(op, out) ==
    /\ trace' = Append(trace, Event(op, index, out))
    /\ index' = index
    /\ pc' = "finish"
    /\ UNCHANGED <<file_paths, converted_files>>

\* an Err arm that tries the same record again
RecordFailedRetries(op, out) ==
    /\ trace' = Append(trace, Event(op, index, out))
    /\ index' = index
    /\ pc' = "loop"
    /\ UNCHANGED <<file_paths, converted_files>>

\* the Err arm of the match on convert_url: log, go on with the next record
RecordFailed(op, out) ==
    /\ trace' = Append(trace, Event(op, index, out))
    /\ index' = NextIndex(index)
    /\ pc' = "loop"
    /\ UNCHANGED <<file_paths, converted_files>>

\* an Ok arm that puts the paths of the record in front of the list
RecordConvertedPrepends(op, paths) ==
    /\ trace' = Append(trace, Event(op, index, "ok"))
    /\ file_paths' = paths
    /\ converted_files' = paths \o converted_files
    /\ index' = NextIndex(index)
    /\ pc' = "loop"

\* the Ok arm of the match on convert_url: push every path of the record
RecordConverted(op, paths) ==
    /\ trace' = Append(trace, Event(op, index, "ok"))
    /\ file_paths' = paths
    /\ converted_files' = converted_files \o paths
    /\ index' = NextIndex(index)
    /\ pc' = "loop"

\* convert_to_pdf for the current record, and what convert_url does next
convert_to_pdf ==
    /\ pc = "pdf"
    /\ LET result == urls_to_process[index + 1]
           fname  == generate_filename(result, index, naming_strategy, sPdf)
           path   == PathJoin(OutputDir, fname.name)
       IN  IF ~fname.ok
           THEN /\ RecordFailed("pdf", "name_err")
                /\ UNCHANGED <<files, requests>>
           ELSE \E out \in ConversionOutcomes(PdfUrlAccepted(result.url)) :
                /\ requests' = IF out = "invalid_url" THEN requests
                               ELSE Append(requests, Request("pdf", index, result.url))
                /\ IF out # "ok"
                   THEN RecordFailed("pdf", out) /\ files' = files
                   ELSE /\ files' = files \cup {path}
                        /\ IF output_format = "Both"
                           THEN /\ file_paths' = Append(file_paths, path)
                                /\ trace' = Append(trace, Event("pdf", index, "ok"))
                                /\ pc' = "md"
                                /\ UNCHANGED <<index, converted_files>>
                           ELSE RecordConverted("pdf", Append(file_paths, path))
    /\ UNCHANGED <<provider_text, max_results, naming_strategy, output_format,
                   search_results, urls, urls_to_process, dir_created, ret>>
    /\ UNCHANGED <<pvars, ovars>>

\* convert_to_markdown for the current record, and the return of convert_url
convert_to_markdown ==
    /\ pc = "md"
    /\ LET result == urls_to_process[index + 1]
           fname  == generate_filename(result, index, naming_strategy, sMd)
           path   == PathJoin(OutputDir, fname.name)
       IN  IF ~fname.ok
           THEN /\ RecordFailed("md", "name_err")
                /\ UNCHANGED <<files, requests>>
           ELSE \E out \in ConversionOutcomes(MarkdownUrlAccepted(result.url)) :
                /\ requests' = IF out = "invalid_url" THEN requests
                               ELSE Append(requests, Request("md", index, result.url))
                /\ IF out # "ok"
                   THEN RecordFailed("md", out) /\ files' = files
                   ELSE /\ files' = files \cup {path}
                        /\ RecordConverted("md", Append(file_paths, path))
    /\ UNCHANGED <<provider_text, max_results, naming_strategy, output_format,
                   search_results, urls, urls_to_process, dir_created, ret>>
    /\ UNCHANGED <<pvars, ovars>>

\* a final test that never reports the empty list
NothingConvertedNever(paths) == FALSE

\* the test that turns an empty list of converted files into an error
NothingConverted(paths) == paths = <<>>

\* after the loop: Err when nothing was converted, else Ok(converted_files)
Finish ==
    /\ pc = "finish"
    /\ pc' = "returned"
    /\ ret' = IF NothingConverted(converted_files)
              THEN Returned("err", "none_converted", <<>>)
              ELSE Returned("ok", "", converted_files)
    /\ UNCHANGED <<requests, provider_text, max_results, naming_strategy,
                   output_format,
                   search_results, urls, urls_to_process, dir_created, index,
                   file_paths, converted_files, files, trace>>
    /\ UNCHANGED <<pvars, ovars>>

Next ==
    \/ Search
    \/ ExtractAndTruncate
    \/ CreateDir
    \/ LoopHead
    \/ convert_to_pdf
    \/ convert_to_markdown
    \/ Finish

Spec == BatchInit /\ [][Next]_vars

\* ------------------------------------------------------------------------
\* Properties of the batch (specification Spec)
\* ------------------------------------------------------------------------

\* positions of the trace that are conversion calls
ConversionPositions == {k \in 1..Len(trace) : trace[k].op \in {"pdf", "md"}}

\* 0-based indices of the records with at least one conversion call
AttemptedRecords == {trace[k].idx : k \in ConversionPositions}

\* the call that ends a successful convert_url for the configured format
LastConversion == IF output_format = "Pdf" THEN "pdf" ELSE "md"

\* positions of the trace where convert_url returned Ok
SuccessPositions ==
    {k \in ConversionPositions : trace[k].op = LastConversion /\ trace[k].out = "ok"}

\* the batch went past the search and the directory creation and returned
BatchCompleted == pc = "returned" /\ dir_created

\* C1: a failed conversion of one record never aborts the batch: when the
\* batch returns after the directory was created, every record of the
\* truncated list has been attempted, and the attempts were made one record
\* after the other in list order, whatever the earlier outcomes.
C1_EveryRecordAttemptedInOrder ==
    /\ BatchCompleted => AttemptedRecords = 0..(Len(urls_to_process) - 1)
    /\ \A j, k \in ConversionPositions : j < k => trace[j].idx <= trace[k].idx
    /\ \A k \in ConversionPositions :
          \A i \in 0..(trace[k].idx - 1) : i \in AttemptedRecords

\* a batch that returned although its first record failed and a later one
\* was attempted after it
C1_Witness ==
    /\ BatchCompleted
    /\ Len(urls_to_process) >= 2
    /\ \E j, k \in ConversionPositions :
          /\ trace[j].idx = 0 /\ trace[j].out # "ok"
          /\ trace[k].idx = 1 /\ j < k

\* C2: once search and directory creation have succeeded, the batch returns
\* an error exactly when the collected list is empty after all attempts (no
\* record was converted), and otherwise returns the collected, non-empty list.
C2_ErrorIffNothingConverted ==
    BatchCompleted =>
        /\ ret.kind \in {"err", "ok"}
        /\ (ret.kind = "err") <=> (converted_files = <<>>)
        /\ (converted_files = <<>>) <=> (SuccessPositions = {})
        /\ ret.kind = "err" => ret.error = "none_converted"
        /\ ret.kind = "ok" => ret.value = converted_files /\ ret.value # <<>>

\* a batch in which every attempted record failed returns the aggregate error
C2_Witness ==
    /\ BatchCompleted
    /\ Len(urls_to_process) >= 1
    /\ ret.kind = "err"
    /\ ret.error = "none_converted"

\* C3: with n parsed records and max_results m, the batch attempts exactly
\* the first min(n, m) records in parsed order and no other record, so never
\* more than m records.
C3_ExactlyFirstMinRecords ==
    LET parsed == urls
        n == Len(parsed)
        k == IF n < max_results THEN n ELSE max_results
    IN  /\ pc \notin {"search", "extract"} /\ ret.error # "search" =>
              /\ Len(urls_to_process) = k
              /\ \A i \in 1..k : urls_to_process[i] = parsed[i]
        /\ AttemptedRecords \subseteq 0..(k - 1)
        /\ Cardinality(AttemptedRecords) <= max_results
        /\ BatchCompleted => AttemptedRecords = 0..(k - 1)

\* more records were parsed than max_results allows, and the batch ran through
C3_Witness ==
    /\ BatchCompleted
    /\ max_results >= 1
    /\ Len(urls) > max_results
    /\ Cardinality(AttemptedRecords) = max_results

\* C4: a provider text beginning with "Error:" makes the search fail, and the
\* batch then fails at once: the directory is not created, no record is
\* parsed and no conversion is attempted.
C4_SearchFailureIsImmediate ==
    /\ (pc # "search" /\ StartsWith(provider_text, sError)) =>
          ret = Returned("err", "search", <<>>)
    /\ ret.error = "search" =>
          /\ pc = "returned"
          /\ trace = <<Event("search", 0, "err")>>
          /\ ~dir_created
          /\ search_results = <<>>
          /\ urls = <<>>
          /\ urls_to_process = <<>>
          /\ files = {}

\* the provider answered with an error text and the batch has returned
C4_Witness ==
    /\ pc = "returned"
    /\ StartsWith(provider_text, sError)
    /\ ret.error = "search"

\* C5: the output directory is created after the search has succeeded and
\* before the first conversion; when its creation fails the batch fails and
\* no conversion is attempted.
C5_DirectoryBeforeConversions ==
    /\ \A k \in ConversionPositions :
          \E j \in 1..(k - 1) : trace[j] = Event("create_dir", 0, "ok")
    /\ \A k \in 1..Len(trace) :
          trace[k].op = "create_dir" =>
              \E j \in 1..(k - 1) : trace[j] = Event("search", 0, "ok")
    /\ dir_created <=> (\E k \in 1..Len(trace) : trace[k] = Event("create_dir", 0, "ok"))
    /\ (\E k \in 1..Len(trace) : trace[k] = Event("create_dir", 0, "err")) =>
          /\ pc = "returned"
          /\ ret = Returned("err", "create_dir", <<>>)
          /\ ConversionPositions = {}
          /\ files = {}

\* the directory creation failed with records waiting to be converted
C5_Witness ==
    /\ pc = "returned"
    /\ ret.error = "create_dir"
    /\ Len(urls_to_process) >= 1

\* C8: within one batch, conversions of different records write to distinct
\* paths: two successful conversion calls of the same kind for different
\* records never have the same generated output path.
C8_DistinctPathsPerRecord ==
    \A j, k \in ConversionPositions :
        ( /\ trace[j].idx # trace[k].idx
          /\ trace[j].op = trace[k].op
          /\ trace[j].out = "ok" /\ trace[k].out = "ok" ) =>
        LET ext == IF trace[j].op = "pdf" THEN sPdf ELSE sMd
            a == trace[j].idx
            b == trace[k].idx
        IN  PathJoin(OutputDir,
                     generate_filename(urls_to_process[a + 1], a,
                                      naming_strategy, ext).name)
            # PathJoin(OutputDir,
                       generate_filename(urls_to_process[b + 1], b,
                                        naming_strategy, ext).name)

\* C9: each successfully converted record contributes one path per requested
\* kind, of the form output_dir/<base>.<ext>: one path for Pdf or Markdown,
\* for Both the .pdf directly followed by the .md of the same base name; the
\* paths of different records appear in record order.
C9_ReturnedPathLayout ==
    LET per == IF output_format = "Both" THEN 2 ELSE 1
        prefix == OutputDir \o <<"/">>
        \* p is output_dir/<base>.<ext> with a non-empty base of one component
        HasForm(p, ext) ==
            /\ StartsWith(p, prefix)
            /\ Len(p) > Len(prefix) + 1 + Len(ext)
            /\ SubSeq(p, Len(p) - Len(ext), Len(p)) = <<".">> \o ext
            /\ \A i \in (Len(prefix) + 1)..Len(p) : p[i] # "/"
        Stem(p, ext) == SubSeq(p, 1, Len(p) - Len(ext) - 1)
        \* the record the g-th group of paths belongs to
        RecordOf(g) ==
            CHOOSE i \in 0..(Len(urls_to_process) - 1) :
                /\ \E k \in SuccessPositions : trace[k].idx = i
                /\ Cardinality({trace[k].idx : k \in {m \in SuccessPositions :
                                                        trace[m].idx < i}}) = g - 1
        Name(g, ext) ==
            generate_filename(urls_to_process[RecordOf(g) + 1], RecordOf(g),
                             naming_strategy, ext).name
    IN  /\ Len(converted_files) = per * Cardinality(SuccessPositions)
        /\ \A g \in 1..Cardinality(SuccessPositions) :
              LET first == converted_files[per * (g - 1) + 1]
                  last  == converted_files[per * g]
              IN  /\ output_format = "Pdf" =>
                        HasForm(first, sPdf) /\ first = prefix \o Name(g, sPdf)
                  /\ output_format = "Markdown" =>
                        HasForm(first, sMd) /\ first = prefix \o Name(g, sMd)
                  /\ output_format = "Both" =>
                        /\ HasForm(first, sPdf) /\ first = prefix \o Name(g, sPdf)
                        /\ HasForm(last, sMd) /\ last = prefix \o Name(g, sMd)
                        /\ Stem(first, sPdf) = Stem(last, sMd)
        /\ ret.kind = "ok" => ret.value = converted_files

\* two records converted with format Both: four paths, of two base names
C9_Witness ==
    /\ pc = "returned"
    /\ output_format = "Both"
    /\ ret.kind = "ok"
    /\ Len(ret.value) = 4
    /\ ret.value[1] # ret.value[3]

\* C10: no conversion is retried: each record of the truncated list gets at
\* most one PDF conversion call and at most one Markdown conversion call,
\* also when the call fails.
C10_NoRetry ==
    \A j, k \in ConversionPositions :
        (trace[j].idx = trace[k].idx /\ trace[j].op = trace[k].op) => j = k

\* a conversion call failed after the url was accepted, and the batch went on
\* to return
C10_Witness ==
    /\ pc = "returned"
    /\ \E k \in ConversionPositions : trace[k].out \in {"fetch_err", "write_err"}

\* ------------------------------------------------------------------------
\* Properties of the parser (specification ParserSpec)
\* ------------------------------------------------------------------------

\* C6: for a text made of k Title:/URL:/Description: triples with non-empty
\* title and url values, the parser returns exactly k records, the i-th with
\* the title and the url of the i-th triple.
C6_OneRecordPerTriple ==
    (ppc = "done" /\ input_kind = "triples") =>
        /\ Len(results) = Len(triples)
        /\ \A i \in 1..Len(triples) :
              /\ results[i].title = triples[i].title
              /\ results[i].url = triples[i].url

\* the maximal runs of non-whitespace characters of s, in order
Tokens(s) ==
    LET first == {i \in 1..Len(s) :
                     ~IsWhitespace(s[i]) /\ (i = 1 \/ IsWhitespace(s[i - 1]))}
        last  == {i \in 1..Len(s) :
                     ~IsWhitespace(s[i]) /\ (i = Len(s) \/ IsWhitespace(s[i + 1]))}
        nth(S, k) == CHOOSE p \in S : Cardinality({q \in S : q < p}) = k - 1
    IN  [k \in 1..Cardinality(first) |-> SubSeq(s, nth(first, k), nth(last, k))]

\* the run begins with http:// or https://
BeginsWithHttp(t) == StartsWith(t, sHttp) \/ StartsWith(t, sHttps)

\* positions of the run where http:// or https:// and one more character begin
UrlStarts(t) ==
    {p \in 1..Len(t) :
        LET rest == SubSeq(t, p, Len(t))
        IN  \/ StartsWith(rest, sHttp) /\ Len(rest) > Len(sHttp)
            \/ StartsWith(rest, sHttps) /\ Len(rest) > Len(sHttps)}

\* the run holds a url
HoldsUrl(t) == UrlStarts(t) # {}

\* the run from its first url start to its end
UrlTail(t) ==
    SubSeq(t, Least(UrlStarts(t)), Len(t))

\* the records the fallback is to make of a list of urls
NumberedRecords(us) ==
    [i \in 1..Len(us) |-> SearchResult(sSearchResult \o FormatUsize(i), us[i], <<>>)]

\* C7 as stated: the fallback runs exactly when the primary pass found no
\* record, and then returns one record per maximal non-whitespace run that
\* begins with http:// or https://, in order, titled "Search Result i", the
\* run as url, with an empty description.
C7_FallbackPerHttpRun ==
    ppc = "done" =>
        /\ fallback_ran <=> (primary_count = 0)
        /\ fallback_ran =>
              results = NumberedRecords(SelectSeq(Tokens(raw), BeginsWithHttp))

\* C7 amended: the fallback runs exactly when the primary pass found no
\* record, and then returns one record per maximal non-whitespace run that
\* holds http:// or https:// followed by at least one more character; the url
\* is the run from the first such place to its end, wherever in the run that
\* place is. Titles and descriptions are as stated.
C7_FallbackPerUrlMatch ==
    ppc = "done" =>
        /\ fallback_ran <=> (primary_count = 0)
        /\ ~fallback_ran => Len(results) = primary_count
        /\ fallback_ran =>
              LET runs == SelectSeq(Tokens(raw), HoldsUrl)
              IN  results = NumberedRecords([i \in 1..Len(runs) |-> UrlTail(runs[i])])

\* the fallback ran on a text with two urls and numbered them 1 and 2
C7_Witness ==
    /\ ppc = "done"
    /\ fallback_ran
    /\ Len(results) = 2
    /\ results[2].title = sSearchResult \o <<"2">>
    /\ results[1].url # results[2].url

\* ------------------------------------------------------------------------
\* sanitize_filename, called on a bounded name and then on its own result
\* ------------------------------------------------------------------------

\* a call of sanitize_filename on a bounded name
FilenameInit ==
    /\ ParserIdle
    /\ BatchIdle
    /\ HtmlIdle
    /\ CliIdle
    /\ SearchTypeIdle
    /\ NameIdle
    /\ fpc = "call"
    /\ filename \in SeqUpTo(NameChars, MaxNameLen)
    /\ sanitized = <<>>
    /\ resanitized = <<>>

\* sanitize_filename(filename)
Sanitize ==
    /\ fpc = "call"
    /\ sanitized' = sanitize_filename(filename)
    /\ fpc' = "sanitized"
    /\ UNCHANGED <<filename, resanitized>>
    /\ UNCHANGED <<pvars, bvars, hvars, cvars, tvars, nvars>>

\* sanitize_filename on the value of the first call
SanitizeAgain ==
    /\ fpc = "sanitized"
    /\ resanitized' = sanitize_filename(sanitized)
    /\ fpc' = "done"
    /\ UNCHANGED <<filename, sanitized>>
    /\ UNCHANGED <<pvars, bvars, hvars, cvars, tvars, nvars>>

FilenameNext ==
    \/ Sanitize
    \/ SanitizeAgain

FilenameSpec == FilenameInit /\ [][FilenameNext]_vars

\* ------------------------------------------------------------------------
\* Properties of sanitize_filename (specification FilenameSpec)
\* ------------------------------------------------------------------------

\* the characters a sanitized name must not hold: the nine named ones and
\* the control characters
ForbiddenInNames ==
    {"/", "\\", ":", "*", "?", "\"", "<", ">", "|", "\t", "\n", "\r"}

\* the name with every forbidden character turned into one underscore
Underscored(name) ==
    [i \in 1..Len(name) |-> IF name[i] \in ForbiddenInNames THEN "_" ELSE name[i]]

\* t is s without its leading and trailing blanks
IsTrimOf(t, s) ==
    \E a \in 1..(Len(s) + 1) : \E b \in 0..Len(s) :
       /\ a <= b + 1
       /\ t = SubSeq(s, a, b)
       /\ \A i \in 1..(a - 1) : s[i] = " "
       /\ \A i \in (b + 1)..Len(s) : s[i] = " "
       /\ t # <<>> => (t[1] # " " /\ t[Len(t)] # " ")

\* C11: the sanitized name is the argument with each of / \ : * ? " < > |
\* and each control character replaced by one underscore, every other
\* character kept, and the blanks at both ends removed; it holds none of
\* the replaced characters; sanitizing it again returns it unchanged.
C11_SanitizeReplacesTrimsIdempotent ==
    /\ fpc \in {"sanitized", "done"} =>
          /\ IsTrimOf(sanitized, Underscored(filename))
          /\ \A i \in 1..Len(sanitized) : sanitized[i] \notin ForbiddenInNames
    /\ fpc = "done" => resanitized = sanitized

\* a name with a leading blank, a named character and a control character
\* has been sanitized twice
C11_Witness ==
    /\ fpc = "done"
    /\ filename = <<" ", "/", "\t">>
    /\ sanitized = <<"_", "_">>
    /\ resanitized = <<"_", "_">>

\* ------------------------------------------------------------------------
\* Properties of the filename strategies in the batch (specification Spec)
\* ------------------------------------------------------------------------

\* the decimal numerals of the positions 1..9
Numerals == <<"1", "2", "3", "4", "5", "6", "7", "8", "9">>

\* the extension of the file a conversion call writes
ExtensionOf(op) == IF op = "pdf" THEN <<"p","d","f">> ELSE <<"m","d">>

\* the path <output_dir>/search_result_<i+1>.<extension>
SequentialPath(i, op) ==
    OutputDir \o <<"/">>
    \o <<"s","e","a","r","c","h","_","r","e","s","u","l","t","_">>
    \o <<Numerals[i + 1]>> \o <<".">> \o ExtensionOf(op)

\* positions of the trace that are conversion calls that wrote their file
WrittenPositions == {k \in ConversionPositions : trace[k].out = "ok"}

\* C12: under the Sequential strategy the files written are exactly the
\* paths search_result_<i+1> of the records i whose conversion succeeded,
\* whatever their title and url and whatever happened to earlier records.
C12_SequentialNameIsPosition ==
    naming_strategy = "Sequential" =>
        files = {SequentialPath(trace[k].idx, trace[k].op) : k \in WrittenPositions}

\* the first record failed and the second one was written as search_result_2
C12_Witness ==
    /\ naming_strategy = "Sequential"
    /\ BatchCompleted
    /\ \E k \in ConversionPositions : trace[k].idx = 0 /\ trace[k].out # "ok"
    /\ \A k \in WrittenPositions : trace[k].idx = 1
    /\ files = {SequentialPath(1, "pdf")}
    /\ urls_to_process[2].title # <<>>

\* the record a position of the trace is about
RecordAt(k) == urls_to_process[trace[k].idx + 1]

\* the path <output_dir>/<base>.<extension>
PathOf(base, op) == OutputDir \o <<"/">> \o base \o <<".">> \o ExtensionOf(op)

\* the base name of a record titled A whose url has no host
UnknownBase ==
    IF naming_strategy = "Domain" THEN <<"u","n","k","n","o","w","n">>
    ELSE <<"A","_","u","n","k","n","o","w","n">>

\* C13: under Domain and TitleDomain a record whose url parses without a
\* host is written with the domain part "unknown"; a record whose url does
\* not parse fails at the name: no page load is started for it, no file is
\* written for it, and the batch goes on with the next record.
C13_UnknownHostAndUnparsableUrl ==
    naming_strategy \in {"Domain", "TitleDomain"} =>
        /\ \A k \in WrittenPositions :
              RecordAt(k).url = urlFile => PathOf(UnknownBase, trace[k].op) \in files
        /\ \A k \in ConversionPositions :
              RecordAt(k).url = urlNoScheme =>
                 /\ trace[k].out = "name_err"
                 /\ \A j \in 1..Len(requests) : requests[j].idx # trace[k].idx
                 /\ \A j \in WrittenPositions : trace[j].idx # trace[k].idx
                 /\ (BatchCompleted /\ trace[k].idx + 1 < Len(urls_to_process)) =>
                       \E j \in ConversionPositions :
                          j > k /\ trace[j].idx = trace[k].idx + 1
        /\ Cardinality(files) <= Cardinality(WrittenPositions)

\* the name of an unparsable first record failed, and the second record,
\* whose url has no host, was written with the domain part "unknown"
C13_Witness ==
    /\ naming_strategy = "TitleDomain"
    /\ BatchCompleted
    /\ Len(urls_to_process) = 2
    /\ urls_to_process[1].url = urlNoScheme
    /\ urls_to_process[2].url = urlFile
    /\ \E k \in ConversionPositions : trace[k].idx = 0 /\ trace[k].out = "name_err"
    /\ files = {PathOf(<<"A","_","u","n","k","n","o","w","n">>, "pdf")}
    /\ Len(requests) = 1

\* ------------------------------------------------------------------------
\* html_to_markdown with a base url: extract_main_content, then extract_title
\* ------------------------------------------------------------------------

\* a call of html_to_markdown on a bounded document
HtmlInit ==
    /\ ParserIdle
    /\ BatchIdle
    /\ FilenameIdle
    /\ CliIdle
    /\ SearchTypeIdle
    /\ NameIdle
    /\ hpc = "content"
    /\ \E head \in SeqUpTo(HeadMenu, MaxItems) :
          \/ \E body \in SeqUpTo(BodyMenu, MaxItems - Len(head)) :
                \E nested \in BOOLEAN :
                   html_content = BodyDocument(head, body, nested)
          \/ \E frames \in SeqUpTo(FrameMenu, MaxItems - Len(head)) :
                html_content = FramesetDocument(head, frames)
    /\ main_content = <<>>
    /\ doc_title = None

\* self.extract_main_content(html_content)?
ExtractMainContent ==
    /\ hpc = "content"
    /\ main_content' = extract_main_content(html_content)
    /\ hpc' = "title"
    /\ UNCHANGED <<html_content, doc_title>>
    /\ UNCHANGED <<pvars, bvars, fvars, cvars, tvars, nvars>>

\* self.extract_title(html_content)
ExtractTitle ==
    /\ hpc = "title"
    /\ doc_title' = extract_title(html_content)
    /\ hpc' = "done"
    /\ UNCHANGED <<html_content, main_content>>
    /\ UNCHANGED <<pvars, bvars, fvars, cvars, tvars, nvars>>

HtmlNext ==
    \/ ExtractMainContent
    \/ ExtractTitle

HtmlSpec == HtmlInit /\ [][HtmlNext]_vars

\* ------------------------------------------------------------------------
\* Properties of the extraction (specification HtmlSpec)
\* ------------------------------------------------------------------------

\* the levels of the content cascade, in the order of the claim
ContentLevels ==
    << [by |-> "tag", value |-> "main"],
       [by |-> "tag", value |-> "article"],
       [by |-> "tag", value |-> "body"],
       [by |-> "class", value |-> "main-content"],
       [by |-> "class", value |-> "content"],
       [by |-> "class", value |-> "post-content"],
       [by |-> "class", value |-> "entry-content"],
       [by |-> "class", value |-> "article-content"],
       [by |-> "id", value |-> "content"] >>

\* the positions of the elements of the page a level selects
LevelElements(n) ==
    LET level == ContentLevels[n]
    IN  {i \in 1..Len(html_content) :
            CASE level.by = "tag" -> html_content[i].tag = level.value
              [] level.by = "class" -> html_content[i].class = <<level.value>>
              [] level.by = "id" -> html_content[i].id = <<level.value>>}

\* content is the element at position i of the page with its descendants
\* and nothing else
IsElementAt(content, i) ==
    \E j \in i..Len(html_content) :
       /\ content = SubSeq(html_content, i, j)
       /\ \A k \in (i + 1)..j : html_content[k].depth > html_content[i].depth
       /\ j < Len(html_content) => html_content[j + 1].depth <= html_content[i].depth

\* C15: the main content is the first element, in document order, of the
\* first level of the cascade main, article, body, the five classes, id
\* content that selects any element; it is the unmodified page when no
\* level selects one; a page with a main element yields that element and
\* nothing outside it.
C15_ContentCascadeOrder ==
    hpc \in {"title", "done"} =>
        /\ \A n \in 1..Len(ContentLevels) :
              (/\ LevelElements(n) # {}
               /\ \A m \in 1..(n - 1) : LevelElements(m) = {}) =>
                 \E i \in LevelElements(n) :
                    /\ \A j \in LevelElements(n) : i <= j
                    /\ IsElementAt(main_content, i)
        /\ (\A n \in 1..Len(ContentLevels) : LevelElements(n) = {}) =>
              main_content = html_content
        /\ LevelElements(1) # {} =>
              /\ main_content[1].tag = "main"
              /\ \A k \in 2..Len(main_content) :
                    main_content[k].depth > main_content[1].depth

\* a page whose body holds an article, a main and a header side by side
\* yields the main element alone
C15_Witness ==
    /\ hpc = "done"
    /\ Len(html_content) = 6
    /\ html_content[4].tag = "article"
    /\ html_content[5].tag = "main"
    /\ html_content[6].tag = "header"
    /\ html_content[6].depth = html_content[5].depth
    /\ main_content = <<html_content[5]>>

\* the trimmed text of the first element with the tag, empty without one
FirstTagText(tag) ==
    LET found == {i \in 1..Len(html_content) : html_content[i].tag = tag}
    IN  IF found = {} THEN <<>>
        ELSE Trim(ElementText(html_content, Least(found)))

\* the trimmed text of the first element with the class, empty without one
FirstClassText(class) ==
    LET found == {i \in 1..Len(html_content) : html_content[i].class = <<class>>}
    IN  IF found = {} THEN <<>>
        ELSE Trim(ElementText(html_content, Least(found)))

\* the content attribute of the first og:title element, when there is
\* such an element and it has the attribute
OgTitleContent ==
    LET found == {i \in 1..Len(html_content) :
                     html_content[i].property = <<"og:title">>}
    IN  IF found = {} THEN <<>> ELSE html_content[Least(found)].content

\* the content attribute of the first twitter:title element, when there is
\* such an element and it has the attribute
TwitterTitleContent ==
    LET found == {i \in 1..Len(html_content) :
                     html_content[i].name = <<"twitter:title">>}
    IN  IF found = {} THEN <<>> ELSE html_content[Least(found)].content

\* the classes of the title cascade, in the order of the claim
TitleClasses == <<"title", "post-title", "entry-title", "article-title">>

\* what the levels after h1 and title give: og:title, then twitter:title,
\* then the classes in order, then nothing
LaterTitle(t) ==
    IF OgTitleContent # <<>> THEN t = OgTitleContent
    ELSE IF TwitterTitleContent # <<>> THEN t = TwitterTitleContent
    ELSE \/ \E k \in 1..Len(TitleClasses) :
              /\ FirstClassText(TitleClasses[k]) # <<>>
              /\ \A m \in 1..(k - 1) : FirstClassText(TitleClasses[m]) = <<>>
              /\ t = <<FirstClassText(TitleClasses[k])>>
         \/ /\ \A k \in 1..Len(TitleClasses) : FirstClassText(TitleClasses[k]) = <<>>
            /\ t = <<>>

\* C16: the title is the trimmed text of the first h1 when that is not
\* empty; the title element is used only when there is no h1 or its
\* trimmed text is empty; og:title, twitter:title and the classes are
\* consulted, in that order, only when neither gave a text; when nothing
\* matches the title is absent.
C16_TitleCascadeOrder ==
    hpc = "done" =>
        /\ FirstTagText("h1") # <<>> => doc_title = <<FirstTagText("h1")>>
        /\ (FirstTagText("h1") = <<>> /\ FirstTagText("title") # <<>>) =>
              doc_title = <<FirstTagText("title")>>
        /\ (FirstTagText("h1") = <<>> /\ FirstTagText("title") = <<>>) =>
              LaterTitle(doc_title)
        /\ (\A i \in 1..Len(html_content) :
               /\ html_content[i].tag \notin {"h1", "title"}
               /\ html_content[i].property = <<>>
               /\ html_content[i].name = <<>>
               /\ html_content[i].class = <<>>) => doc_title = <<>>

\* a page with a title, an og:title and a blank h1 takes the trimmed text
\* of the title element
C16_Witness ==
    /\ hpc = "done"
    /\ \E i \in 1..Len(html_content) :
          html_content[i].tag = "h1" /\ html_content[i].text = <<" ">>
    /\ \E i \in 1..Len(html_content) :
          html_content[i].tag = "title" /\ html_content[i].text = <<" ","P"," ">>
    /\ \E i \in 1..Len(html_content) : html_content[i].content = <<<<"O">>>>
    /\ doc_title = <<<<"P">>>>

\* ------------------------------------------------------------------------
\* main of the command line in single-url mode, with url_to_pdf and
\* url_to_markdown one statement per step
\* ------------------------------------------------------------------------

\* the process starts with its arguments parsed
CliInit ==
    /\ ParserIdle
    /\ BatchIdle
    /\ FilenameIdle
    /\ HtmlIdle
    /\ SearchTypeIdle
    /\ NameIdle
    /\ cpc = "main"
    /\ cli_url \in CliUrls
    /\ cli_output \in CliOutputs
    /\ cli_format \in OutputFormats
    /\ cli_wait \in CliWaits
    /\ pending = <<>>
    /\ exit_code = -1
    /\ ConverterIdle
    /\ effects = <<>>

\* the process ends with a status
Exit(status) ==
    /\ cpc' = "exit"
    /\ exit_code' = status
    /\ pending' = <<>>

\* main calls a converter on the url
StartCall(calls) ==
    /\ cpc' = "call"
    /\ exit_code' = exit_code
    /\ pending' = Tail(calls)
    /\ cv_pc' = "validate"
    /\ cv_op' = Head(calls).op
    /\ cv_url' = cli_url
    /\ cv_path' = Some(Head(calls).path)
    /\ cv_ret' = "none"

\* main up to the first converter call: the output path, which needs the
\* url parsed when --output is absent, and the generators
CliMain ==
    /\ cpc = "main"
    /\ IF cli_output = None /\ ~UrlParse(cli_url).ok
       THEN /\ Exit(1)
            /\ UNCHANGED <<cv_pc, cv_op, cv_url, cv_path, cv_ret>>
       ELSE \E generators_ok \in BOOLEAN :
               IF generators_ok
               THEN StartCall(CliCalls(cli_format, cli_output, cli_url))
               ELSE /\ Exit(1)
                    /\ UNCHANGED <<cv_pc, cv_op, cv_url, cv_path, cv_ret>>
    /\ UNCHANGED <<cli_url, cli_output, cli_format, cli_wait, effects>>
    /\ UNCHANGED <<pvars, bvars, fvars, hvars, tvars, nvars>>

\* the converter returns
Return(value) ==
    /\ cv_pc' = "returned"
    /\ cv_ret' = value

\* the validation at the head of url_to_pdf and of url_to_markdown
Validate ==
    /\ cv_pc = "validate"
    /\ IF cv_op = "pdf"
       THEN IF PdfUrlAccepted(cv_url)
            THEN cv_pc' = "open" /\ cv_ret' = cv_ret
            ELSE Return("err")
       ELSE IF MarkdownUrlAccepted(cv_url)
            THEN cv_pc' = "fetch" /\ cv_ret' = cv_ret
            ELSE Return("err")
    /\ UNCHANGED <<cpc, cli_url, cli_output, cli_format, cli_wait, pending,
                   exit_code, cv_op, cv_url, cv_path, effects>>
    /\ UNCHANGED <<pvars, bvars, fvars, hvars, tvars, nvars>>

\* url_to_pdf: new_tab, navigate_to, wait_until_navigated
OpenTab ==
    /\ cv_pc = "open"
    /\ effects' = Append(effects, Effect("tab", cv_op, cv_url, 0))
    /\ \E ok \in BOOLEAN :
          IF ok THEN cv_pc' = "sleep" /\ cv_ret' = cv_ret ELSE Return("err")
    /\ UNCHANGED <<cpc, cli_url, cli_output, cli_format, cli_wait, pending,
                   exit_code, cv_op, cv_url, cv_path>>
    /\ UNCHANGED <<pvars, bvars, fvars, hvars, tvars, nvars>>

\* url_to_pdf: tokio::time::sleep(Duration::from_millis(2000))
Sleep ==
    /\ cv_pc = "sleep"
    /\ effects' = Append(effects, Effect("sleep", cv_op, <<>>, SleepMillis))
    /\ cv_pc' = "print"
    /\ UNCHANGED <<cpc, cli_url, cli_output, cli_format, cli_wait, pending,
                   exit_code, cv_op, cv_url, cv_path, cv_ret>>
    /\ UNCHANGED <<pvars, bvars, fvars, hvars, tvars, nvars>>

\* url_to_pdf: tab.print_to_pdf(..)?
PrintToPdf ==
    /\ cv_pc = "print"
    /\ \E ok \in BOOLEAN :
          IF ok THEN cv_pc' = "write" /\ cv_ret' = cv_ret ELSE Return("err")
    /\ UNCHANGED <<cpc, cli_url, cli_output, cli_format, cli_wait, pending,
                   exit_code, cv_op, cv_url, cv_path, effects>>
    /\ UNCHANGED <<pvars, bvars, fvars, hvars, tvars, nvars>>

\* url_to_markdown: the request, the body, and html_to_markdown
Fetch ==
    /\ cv_pc = "fetch"
    /\ effects' = Append(effects, Effect("request", cv_op, cv_url, 0))
    /\ \E ok \in BOOLEAN :
          IF ok THEN cv_pc' = "write" /\ cv_ret' = cv_ret ELSE Return("err")
    /\ UNCHANGED <<cpc, cli_url, cli_output, cli_format, cli_wait, pending,
                   exit_code, cv_op, cv_url, cv_path>>
    /\ UNCHANGED <<pvars, bvars, fvars, hvars, tvars, nvars>>

\* the end of both converters: fs::write when there is an output path
WriteFile ==
    /\ cv_pc = "write"
    /\ IF cv_path = None
       THEN Return("ok") /\ effects' = effects
       ELSE /\ effects' = Append(effects, Effect("write", cv_op, cv_path[1], 0))
            /\ \E ok \in BOOLEAN : Return(IF ok THEN "ok" ELSE "err")
    /\ UNCHANGED <<cpc, cli_url, cli_output, cli_format, cli_wait, pending,
                   exit_code, cv_op, cv_url, cv_path>>
    /\ UNCHANGED <<pvars, bvars, fvars, hvars, tvars, nvars>>

\* main after a converter call: exit(1) on Err, else the next call or the end
CallReturned ==
    /\ cpc = "call"
    /\ cv_pc = "returned"
    /\ IF cv_ret = "err"
       THEN /\ Exit(1)
            /\ UNCHANGED <<cv_pc, cv_op, cv_url, cv_path, cv_ret>>
       ELSE IF pending # <<>>
       THEN StartCall(pending)
       ELSE /\ Exit(0)
            /\ UNCHANGED <<cv_pc, cv_op, cv_url, cv_path, cv_ret>>
    /\ UNCHANGED <<cli_url, cli_output, cli_format, cli_wait, effects>>
    /\ UNCHANGED <<pvars, bvars, fvars, hvars, tvars, nvars>>

CliNext ==
    \/ CliMain
    \/ Validate
    \/ OpenTab
    \/ Sleep
    \/ PrintToPdf
    \/ Fetch
    \/ WriteFile
    \/ CallReturned

CliSpec == CliInit /\ [][CliNext]_vars

\* ------------------------------------------------------------------------
\* Properties of the converters and the command line (specification CliSpec)
\* ------------------------------------------------------------------------

\* the scheme each url of the command line parses with, "none" when it
\* does not parse
ExpectedScheme(url) ==
    CASE url = urlAB1 -> "https"
      [] url = urlHttp -> "http"
      [] url = urlUpper -> "https"
      [] url = urlFile -> "file"
      [] url = urlFtp -> "ftp"
      [] url = urlMailto -> "mailto"
      [] url = urlNoScheme -> "none"

\* the schemes a converter accepts
AllowedSchemes(op) ==
    IF op = "pdf" THEN {"http", "https", "file"} ELSE {"http", "https"}

\* the positions of the effects of a converter
EffectsOf(op) == {k \in 1..Len(effects) : effects[k].op = op}

\* C17: url_to_markdown goes past its validation only for urls that parse
\* with scheme http or https, url_to_pdf only for http, https or file; for
\* any other url the converter returns an error and has opened no tab,
\* sent no request and written no file.
C17_RejectedBeforeAnyEffect ==
    cv_pc \notin {"idle", "validate"} =>
        IF ExpectedScheme(cv_url) \in AllowedSchemes(cv_op)
        THEN cv_pc = "returned" => EffectsOf(cv_op) # {}
        ELSE /\ cv_pc = "returned"
             /\ cv_ret = "err"
             /\ EffectsOf(cv_op) = {}

\* with both formats on a file url, url_to_pdf wrote its file and
\* url_to_markdown then returned an error without any effect
C17_Witness ==
    /\ cv_url = urlFile
    /\ cv_op = "md"
    /\ cv_pc = "returned"
    /\ cv_ret = "err"
    /\ \E k \in EffectsOf("pdf") : effects[k].kind = "write"
    /\ EffectsOf("md") = {}

\* C19: a single-url PDF conversion that succeeded has waited, between
\* page load and PDF generation, the number of seconds given by --wait.
C19_WaitIsCliWait ==
    (cli_format = "Pdf" /\ cpc = "exit" /\ exit_code = 0) =>
        /\ Cardinality({k \in 1..Len(effects) : effects[k].kind = "sleep"}) = 1
        /\ \A k \in 1..Len(effects) :
              effects[k].kind = "sleep" => effects[k].millis = cli_wait * 1000

\* ------------------------------------------------------------------------
\* SearchType: from_str, then Display, then from_str on what was displayed
\* ------------------------------------------------------------------------

\* a call of from_str on a bounded string
SearchTypeInit ==
    /\ ParserIdle
    /\ BatchIdle
    /\ FilenameIdle
    /\ HtmlIdle
    /\ CliIdle
    /\ NameIdle
    /\ tpc = "parse"
    /\ type_name \in SearchTypeNames
    /\ parsed_type = Err
    /\ shown = <<>>
    /\ reparsed_type = Err

\* type_name.parse::<SearchType>()
Parse ==
    /\ tpc = "parse"
    /\ parsed_type' = from_str(type_name)
    /\ tpc' = IF parsed_type'.ok THEN "display" ELSE "rejected"
    /\ UNCHANGED <<type_name, shown, reparsed_type>>
    /\ UNCHANGED <<pvars, bvars, fvars, hvars, cvars, nvars>>

\* search_type.to_string()
Display ==
    /\ tpc = "display"
    /\ shown' = fmt(parsed_type.value)
    /\ tpc' = "reparse"
    /\ UNCHANGED <<type_name, parsed_type, reparsed_type>>
    /\ UNCHANGED <<pvars, bvars, fvars, hvars, cvars, nvars>>

\* shown.parse::<SearchType>()
Reparse ==
    /\ tpc = "reparse"
    /\ reparsed_type' = from_str(shown)
    /\ tpc' = "done"
    /\ UNCHANGED <<type_name, parsed_type, shown>>
    /\ UNCHANGED <<pvars, bvars, fvars, hvars, cvars, nvars>>

SearchTypeNext ==
    \/ Parse
    \/ Display
    \/ Reparse

SearchTypeSpec == SearchTypeInit /\ [][SearchTypeNext]_vars

\* ------------------------------------------------------------------------
\* Properties of SearchType (specification SearchTypeSpec)
\* ------------------------------------------------------------------------

\* the variant a string names, whatever the case of its letters
NamedVariant(s) ==
    IF s \in CaseVariants(<<"w","e","b">>) THEN "Web"
    ELSE IF s \in CaseVariants(<<"n","e","w","s">>) THEN "News"
    ELSE IF s \in CaseVariants(<<"l","o","c","a","l">>) THEN "Local"
    ELSE "none"

\* C18: from_str accepts web, news and local in any case and rejects every
\* other string; the variant is displayed as its name in small letters, and
\* parsing what is displayed gives the variant back.
C18_SearchTypeRoundTrip ==
    /\ tpc \notin {"idle", "parse"} =>
          /\ parsed_type.ok <=> NamedVariant(type_name) # "none"
          /\ parsed_type.ok => parsed_type.value = NamedVariant(type_name)
          /\ tpc = "rejected" <=> ~parsed_type.ok
    /\ tpc \in {"reparse", "done"} =>
          /\ parsed_type.value = "Web" => shown = <<"w","e","b">>
          /\ parsed_type.value = "News" => shown = <<"n","e","w","s">>
          /\ parsed_type.value = "Local" => shown = <<"l","o","c","a","l">>
    /\ tpc = "done" => (reparsed_type.ok /\ reparsed_type.value = parsed_type.value)

\* NeWs was parsed as News, displayed as news and parsed as News again
C18_Witness ==
    /\ tpc = "done"
    /\ type_name = <<"N","e","W","s">>
    /\ parsed_type = [ok |-> TRUE, value |-> "News"]
    /\ shown = <<"n","e","w","s">>
    /\ reparsed_type = parsed_type

\* ------------------------------------------------------------------------
\* Properties of the primary pass, step by step (specification ParserSpec)
\* ------------------------------------------------------------------------

\* the slots before the step, by name
SlotsBefore ==
    [title |-> current_title, url |-> current_url,
     description |-> current_description]

\* a step of the loop over the lines: either nothing is emitted and the
\* slots it leaves are not both filled, or exactly one record is appended,
\* the line was not a skipped one, the record has a url and a title, it
\* differs from the slots before the step in at most the one slot the line
\* filled, and the step leaves the three slots empty
C20_Step ==
    (ppc = "loop" /\ ppc' = "loop") =>
        \/ /\ results' = results
           /\ ~(current_url' # <<>> /\ current_title' # <<>>)
        \/ /\ Len(results') = Len(results) + 1
           /\ SubSeq(results', 1, Len(results)) = results
           /\ ~IsSkipped(Trim(Head(lines)))
           /\ LET r == results'[Len(results')]
              IN  /\ r.url # <<>>
                  /\ r.title # <<>>
                  /\ Cardinality({f \in {"title", "url", "description"} :
                                     r[f] # SlotsBefore[f]}) <= 1
           /\ current_title' = <<>>
           /\ current_url' = <<>>
           /\ current_description' = <<>>

\* C20: in the primary pass a record with the current slot values is
\* emitted after a processed line exactly when the url slot and the title
\* slot are both filled, the three slots are then reset, and no record is
\* emitted at any other point of the pass.
C20_EmitIffUrlAndTitle == [][C20_Step]_vars

\* a description line, a title line and a url line were processed: one
\* record with the three values was emitted and the slots are empty again
C20_Witness ==
    /\ ppc = "loop"
    /\ lines = <<>>
    /\ Len(results) = 1
    /\ results[1] = SearchResult(<<"A">>, urlAB1, <<"D">>)
    /\ current_title = <<>>
    /\ current_url = <<>>
    /\ current_description = <<>>

\* the slots and the records before the step, as the loop body sees them
LoopStateBefore ==
    [title |-> current_title, url |-> current_url,
     description |-> current_description, results |-> results]

\* the slots and the records after the step
LoopStateAfter ==
    [title |-> current_title', url |-> current_url',
     description |-> current_description', results |-> results']

\* the line is not empty and made of the one character only
IsRunOf(line, c) == line # <<>> /\ \A i \in 1..Len(line) : line[i] = c

\* a step of the loop over the lines: a line that is blank, all = or all -
\* changes nothing, and every other line is classified
C21_Step ==
    (ppc = "loop" /\ ppc' = "loop") =>
        LET line == Trim(Head(lines))
        IN  IF line = <<>> \/ IsRunOf(line, "=") \/ IsRunOf(line, "-")
            THEN LoopStateAfter = LoopStateBefore
            ELSE LoopStateAfter = EmitIfComplete(ClassifyLine(LoopStateBefore, line))

\* C21: the primary pass skips a trimmed line exactly when it is blank or
\* consists only of = characters or only of - characters; every other
\* line, also one that merely begins with = or -, is classified.
C21_SkipOnlySeparatorRuns == [][C21_Step]_vars

\* the text of a line after its first n characters, trimmed
RemainderAfter(line, n) == Trim(SubSeq(line, n + 1, Len(line)))

\* the value the slot has after the step, taken from the emitted record
\* when the step emitted one
SlotAfter(slot) ==
    IF results' # results THEN results'[Len(results')][slot]
    ELSE LoopStateAfter[slot]

\* a step of the loop over the lines on a line with a prefix: the slot of
\* the prefix receives the rest of the line after the prefix, trimmed
C22_Step ==
    (ppc = "loop" /\ ppc' = "loop") =>
        LET line == Trim(Head(lines))
        IN  /\ StartsWith(line, <<"U","R","L",":">>) =>
                  SlotAfter("url") = RemainderAfter(line, 4)
            /\ StartsWith(line, <<"T","i","t","l","e",":">>) =>
                  SlotAfter("title") = RemainderAfter(line, 6)
            /\ StartsWith(line, <<"D","e","s","c","r","i","p","t","i","o","n",":">>) =>
                  SlotAfter("description") = RemainderAfter(line, 12)

\* C22: for a line that starts with URL:, Title: or Description: the slot
\* receives exactly the remainder of the line after that leading prefix,
\* trimmed; a further occurrence of the prefix in the line is kept.
C22_SlotIsRemainderAfterPrefix == [][C22_Step]_vars

\* the tokens of a class attribute: its words between the spaces
ClassTokens(class) ==
    IF class = None THEN {}
    ELSE IF class[1] = "content wide" THEN {"content", "wide"}
    ELSE {class[1]}

\* the positions of the elements of the page that have the k-th class name
\* among the tokens of their class attribute
TokenElements(k) ==
    {i \in 1..Len(html_content) :
        ContentClassSelectors[k] \in ClassTokens(html_content[i].class)}

\* C23: at the class level of the content cascade an element matches a
\* class name when its class attribute contains that name as a token, and
\* the first such element of the first class name with one is the content.
C23_ClassMatchesByToken ==
    (/\ hpc \in {"title", "done"}
     /\ \A i \in 1..Len(html_content) :
           html_content[i].tag \notin {"main", "article", "body"}) =>
        \A k \in 1..Len(ContentClassSelectors) :
           (/\ TokenElements(k) # {}
            /\ \A m \in 1..(k - 1) : TokenElements(m) = {}) =>
              IsElementAt(main_content, Least(TokenElements(k)))

C24_WrittenFilesAreReturned ==
    pc = "returned" =>
        \A path \in files : \E i \in 1..Len(ret.value) : ret.value[i] = path

\* the paths a converter wrote a file to
WrittenBy(op) == {effects[k].target : k \in {j \in EffectsOf(op) : effects[j].kind = "write"}}

\* C30: with format Both the command line writes the PDF and the Markdown
\* output to two different paths, whatever --output is, so that the
\* Markdown write never overwrites the PDF just written.
C30_BothWritesTwoPaths ==
    cli_format = "Both" => WrittenBy("pdf") \cap WrittenBy("md") = {}

\* the input is made of triples whose values do not contain a prefix, so
\* that the i-th record emitted is the record of the i-th triple
PlainTriples ==
    /\ input_kind = "triples"
    /\ \A j \in 1..Len(triples) : triples[j].title # sTitle

\* C25: for triples in the order Title:, URL:, Description: the description
\* of each emitted record is empty or the description of the record's own
\* triple; the description of one triple never ends up in the record of
\* another triple.
C25_DescriptionOfOwnTriple ==
    (ppc = "done" /\ PlainTriples) =>
        \A i \in 1..Len(results) :
           /\ i <= Len(triples)
           /\ results[i].description \in {<<>>, triples[i].description}

\* a step of the primary pass: the url and title slots are not both filled
\* when a line is taken up; the description slot is set by a Description:
\* line alone, and an emitted record carries the description slot as it was
C26_Step ==
    /\ ppc = "loop" => ~(current_url # <<>> /\ current_title # <<>>)
    /\ (ppc = "loop" /\ ppc' = "loop") =>
          LET line == Trim(Head(lines))
          IN  IF results' = results
              THEN current_description' # current_description =>
                      StartsWith(line, sDescription)
              ELSE /\ ~StartsWith(line, sDescription)
                   /\ results'[Len(results')].description = current_description

\* C26: in the primary pass the url slot and the title slot are never both
\* non-empty at the start of a line; so the rule that makes an unprefixed
\* line the description never fires, and a record has a non-empty
\* description only from a line that starts with Description:.
C26_UrlAndTitleNeverBothFilled == [][C26_Step]_vars

\* a url line, then two unprefixed lines: the first became the title and
\* completed the record, the second was not taken as a description
C26_Witness ==
    /\ ppc = "done"
    /\ raw = JoinLines(<<urlDE, <<"A">>, <<"A">>>>)
    /\ results = <<SearchResult(<<"A">>, urlDE, <<>>)>>
    /\ current_description = <<>>

\* the path in the output directory starts with the text
NamedWith(path, text) == StartsWith(path, OutputDir \o <<"/">> \o text)

\* C27: every record extract_urls_from_results returns, from the primary
\* pass or from the fallback, has a non-empty title and a non-empty url;
\* so under the Title and TitleDomain strategies the batch never names a
\* file with the empty-title names search_result_N and result_N.
C27_RecordsHaveTitleAndUrl ==
    /\ \A i \in 1..Len(urls) : urls[i].title # <<>> /\ urls[i].url # <<>>
    /\ naming_strategy \in {"Title", "TitleDomain"} =>
          \A path \in files :
             /\ ~NamedWith(path, sSearchResultUnderscore)
             /\ ~NamedWith(path, sResultUnderscore)

\* the fallback found the records and, under the Title strategy, the first
\* one was written under its fallback title
C27_Witness ==
    /\ provider_text = UnstructuredText
    /\ naming_strategy = "Title"
    /\ Len(urls) = 2
    /\ urls[1].title = sSearchResult \o <<"1">>
    /\ \E path \in files : NamedWith(path, sSearchResult \o <<"1">>)

\* ------------------------------------------------------------------------
\* generate_filename on a bounded record, and the join with output_dir
\* ------------------------------------------------------------------------

\* the urls of the records: one with a host, one without, one that does
\* not parse
NameUrls == {urlAB1, urlFile, urlNoScheme}

\* a call of generate_filename on a bounded record
NameInit ==
    /\ ParserIdle
    /\ BatchIdle
    /\ FilenameIdle
    /\ HtmlIdle
    /\ CliIdle
    /\ SearchTypeIdle
    /\ npc = "call"
    /\ \E title \in SeqUpTo(NameChars, MaxTitleLen) :
          \E url \in NameUrls :
             name_result = SearchResult(title, url, <<>>)
    /\ name_index \in {0, 1}
    /\ name_strategy \in NamingStrategies
    /\ name_extension \in {sPdf, sMd}
    /\ name_filename = [ok |-> FALSE, name |-> <<>>]
    /\ name_path = <<>>

\* self.generate_filename(result, index, config, extension)?
GenerateFilename ==
    /\ npc = "call"
    /\ name_filename' = generate_filename(name_result, name_index,
                                          name_strategy, name_extension)
    /\ npc' = IF name_filename'.ok THEN "named" ELSE "failed"
    /\ UNCHANGED <<name_result, name_index, name_strategy, name_extension,
                   name_path>>
    /\ UNCHANGED <<pvars, bvars, fvars, hvars, cvars, tvars>>

\* config.output_dir.join(filename)
JoinPath ==
    /\ npc = "named"
    /\ name_path' = PathJoin(OutputDir, name_filename.name)
    /\ npc' = "joined"
    /\ UNCHANGED <<name_result, name_index, name_strategy, name_extension,
                   name_filename>>
    /\ UNCHANGED <<pvars, bvars, fvars, hvars, cvars, tvars>>

NameNext ==
    \/ GenerateFilename
    \/ JoinPath

NameSpec == NameInit /\ [][NameNext]_vars

\* the text has the character somewhere
HasChar(text, c) == \E i \in 1..Len(text) : text[i] = c

\* C28: every path the batch writes or returns is a direct child of the
\* output directory: for any title, url and naming strategy the name
\* generate_filename produces is non-empty and has neither / nor \ in it.
C28_NameIsDirectChild ==
    /\ npc \in {"named", "joined"} =>
          /\ name_filename.name # <<>>
          /\ name_filename.name \notin {<<".">>, <<".", ".">>}
          /\ ~HasChar(name_filename.name, "/")
          /\ ~HasChar(name_filename.name, "\\")
    /\ npc = "joined" => name_path = OutputDir \o <<"/">> \o name_filename.name

\* a title made of a slash and a backslash was named and joined
C28_Witness ==
    /\ npc = "joined"
    /\ name_strategy = "Title"
    /\ name_result.title = <<"/", "\\">>
    /\ name_path = OutputDir \o <<"/", "_", "_", ".">> \o name_extension

====
